---- MODULE Spec2Model ----
(***************************************************************************)
(* Model of gh-copilot-usage: the display engine of src/src/display.ts,   *)
(* the usage fetcher of src/src/usage.ts, and the configuration resolver   *)
(* and argument parser of config.ts and cli.ts.                            *)
(*                                                                         *)
(* Numbers that are IEEE doubles in the code are exact rationals here,     *)
(* records [n |-> numerator, d |-> denominator] with d > 0.  Strings are   *)
(* sequences of glyph tokens: one token per character, one token per       *)
(* style escape sequence.                                                  *)
(***************************************************************************)
EXTENDS Integers, Sequences, FiniteSets, TLC

VARIABLES pc, fn, args, ret, shellLog, stdout, stderr, exitCode, callLog, locals

(* What only a run of main writes: the two streams, the exit code of the   *)
(* process, the calls main has made so far and main's local constants.     *)
mainVars == <<stdout, stderr, exitCode, callLog, locals>>

vars == <<pc, fn, args, ret, shellLog, stdout, stderr, exitCode, callLog, locals>>

----------------------------------------------------------------------------
(* Bounds of the explored inputs                                           *)

MaxUsed == 64
MaxPctTenths == 1200
MaxTotal == 6
MaxBarWidth == 9
MaxMonthBarWidth == 12
MaxModels == 2
MaxNameLen == 23
MaxUsernameLen == 39
MaxItems == 3
MaxArgs == 3

----------------------------------------------------------------------------
(* Rational arithmetic standing for the code's number operations           *)

Rat(a, b) == [n |-> a, d |-> b]

RLt(x, y) == x.n * y.d < y.n * x.d

RECURSIVE GCD(_, _)
GCD(a, b) == IF b = 0 THEN a ELSE GCD(b, a % b)

(* The same value in lowest terms.                                         *)
Norm(a, b) == LET g == GCD(a, b) IN Rat(a \div g, b \div g)

RDivInt(x, k) == Norm(x.n, x.d * k)

RMulInt(x, k) == Norm(x.n * k, x.d)

RAddInt(x, k) == Rat(x.n + k * x.d, x.d)

RMin(x, y) == IF RLt(y, x) THEN y ELSE x

RFloor(x) == x.n \div x.d

Max(a, b) == IF a > b THEN a ELSE b

Min(a, b) == IF a < b THEN a ELSE b

----------------------------------------------------------------------------
(* Color classifiers                                                       *)

getOverallColor_SwappedBand(percentage, monthProgress) ==
  LET usageRatio == RDivInt(percentage, 100)
      redThreshold == RDivInt(RAddInt(monthProgress, 1), 2)
  IN  IF RLt(usageRatio, monthProgress) THEN "green"
      ELSE IF RLt(redThreshold, usageRatio) THEN "red"
      ELSE "yellow"

getOverallColor_GreenAtCursor(percentage, monthProgress) ==
  LET usageRatio == RDivInt(percentage, 100)
      redThreshold == RDivInt(RAddInt(monthProgress, 1), 2)
  IN  IF ~RLt(monthProgress, usageRatio) THEN "green"
      ELSE IF RLt(usageRatio, redThreshold) THEN "yellow"
      ELSE "red"

getOverallColor_RedBeforeYellow(percentage, monthProgress) ==
  LET usageRatio == RDivInt(percentage, 100)
      redThreshold == RDivInt(RAddInt(monthProgress, 1), 2)
  IN  IF RLt(usageRatio, monthProgress) THEN "green"
      ELSE IF RLt(usageRatio, redThreshold) THEN "red"
      ELSE "yellow"

getOverallColor_NoHalving(percentage, monthProgress) ==
  LET usageRatio == RDivInt(percentage, 100)
      redThreshold == RAddInt(monthProgress, 1)
  IN  IF RLt(usageRatio, monthProgress) THEN "green"
      ELSE IF RLt(usageRatio, redThreshold) THEN "yellow"
      ELSE "red"

getOverallColor(percentage, monthProgress) ==
  LET usageRatio == RDivInt(percentage, 100)
      redThreshold == RDivInt(RAddInt(monthProgress, 1), 2)
  IN  IF RLt(usageRatio, monthProgress) THEN "green"
      ELSE IF RLt(usageRatio, redThreshold) THEN "yellow"
      ELSE "red"

getModelColor_YellowAbove75(percentage) ==
  IF ~RLt(Rat(75, 1), percentage) THEN "green"
  ELSE IF RLt(percentage, Rat(90, 1)) THEN "yellow"
  ELSE "red"

getModelColor(percentage) ==
  IF RLt(percentage, Rat(75, 1)) THEN "green"
  ELSE IF RLt(percentage, Rat(90, 1)) THEN "yellow"
  ELSE "red"

----------------------------------------------------------------------------
(* Strings: sequences of glyph tokens                                      *)

(* One token per style escape sequence written by styleText.               *)
StyleNames == {"dim", "bold", "green", "yellow", "red"}

EscOpen(f) == "ESC[" \o f

EscClose(f) == "ESC[/" \o f

Escapes == {EscOpen(f) : f \in StyleNames} \cup {EscClose(f) : f \in StyleNames}

(* A character of two display cells and one UTF-16 code unit.              *)
WideGlyphs == {"CJK"}

(* The marker left in a string by an operation that raises RangeError      *)
(* (String.prototype.repeat with a negative count).                        *)
RangeError == "RangeError"

Reverse(s) == [i \in 1..Len(s) |-> s[Len(s) + 1 - i]]

Repeat(g, count) == IF count < 0 THEN <<RangeError>> ELSE [i \in 1..count |-> g]

Throws(s) == \E i \in 1..Len(s) : s[i] = RangeError

styleText(formats, text) ==
  [i \in 1..Len(formats) |-> EscOpen(formats[i])]
    \o text
    \o [i \in 1..Len(formats) |-> EscClose(Reverse(formats)[i])]

dim(text) == styleText(<<"dim">>, text)

GlyphWidth(g) == IF g \in Escapes THEN 0 ELSE IF g \in WideGlyphs THEN 2 ELSE 1

RECURSIVE SumWidth(_, _)
SumWidth(s, i) == IF i = 0 THEN 0 ELSE GlyphWidth(s[i]) + SumWidth(s, i - 1)

stringWidth(s) == SumWidth(s, Len(s))

(* The visible glyphs of a string: the escape sequences removed.           *)
Visible(s) == SelectSeq(s, LAMBDA g : g \notin Escapes)

----------------------------------------------------------------------------
(* Bar renderer                                                            *)

drawBar_NoClamp(used, total, width, color) ==
  LET filled == RFloor(RDivInt(RMulInt(used, width), total))
      empty == width - filled
  IN  styleText(<<color>>, Repeat("FULL", filled)) \o dim(Repeat("EMPTY", empty))

drawBar_Rounded(used, total, width, color) ==
  LET maxxed == RMin(used, Rat(total, 1))
      q == RDivInt(RMulInt(maxxed, width), total)
      filled == (2 * q.n + q.d) \div (2 * q.d)
      empty == width - filled
  IN  styleText(<<color>>, Repeat("FULL", filled)) \o dim(Repeat("EMPTY", empty))

drawBar(used, total, width, color) ==
  LET maxxed == RMin(used, Rat(total, 1))
      filled == RFloor(RDivInt(RMulInt(maxxed, width), total))
      empty == width - filled
  IN  styleText(<<color>>, Repeat("FULL", filled)) \o dim(Repeat("EMPTY", empty))

drawMonthProgressBar_NoReserve(currentDay, totalDays, width) ==
  LET filled == (currentDay * width) \div totalDays
      empty == width - filled - 1
  IN  dim(Repeat("DOT", filled)) \o <<"|">> \o dim(Repeat("DOT", empty))

drawMonthProgressBar(currentDay, totalDays, width) ==
  LET filled == Min((currentDay * width) \div totalDays, width - 1)
      empty == width - filled - 1
  IN  dim(Repeat("DOT", filled)) \o <<"|">> \o dim(Repeat("DOT", empty))

----------------------------------------------------------------------------
(* Number and text formatting                                              *)

MODEL_NAME_WIDTH == 22
MODEL_USAGE_COUNT_WIDTH == 5
MODEL_USAGE_PCT_WIDTH == 7

DigitGlyph(k) ==
  CASE k = 0 -> "0" [] k = 1 -> "1" [] k = 2 -> "2" [] k = 3 -> "3" [] k = 4 -> "4"
    [] k = 5 -> "5" [] k = 6 -> "6" [] k = 7 -> "7" [] k = 8 -> "8" [] k = 9 -> "9"

RECURSIVE Digits(_)
Digits(k) == IF k < 10 THEN <<DigitGlyph(k)>> ELSE Digits(k \div 10) \o <<DigitGlyph(k % 10)>>

(* Number.prototype.toString of a value with at most two decimals (d = 100) *)
numberToString(x) ==
  LET hundredths == (x.n * 100) \div x.d
      whole == hundredths \div 100
      frac == hundredths % 100
  IN  IF frac = 0 THEN Digits(whole)
      ELSE IF frac % 10 = 0 THEN Digits(whole) \o <<".">> \o Digits(frac \div 10)
      ELSE Digits(whole) \o <<".", DigitGlyph(frac \div 10), DigitGlyph(frac % 10)>>

(* Math.round *)
mathRound(x) == (2 * x.n + x.d) \div (2 * x.d)

(* Number.prototype.toFixed(1) *)
toFixed1(x) ==
  LET tenths == mathRound(RMulInt(x, 10))
  IN  Digits(tenths \div 10) \o <<".", DigitGlyph(tenths % 10)>>

formatPercentage(pct) ==
  IF ~RLt(pct, Rat(1000, 1)) THEN toFixed1(RDivInt(pct, 1000)) \o <<"k", "%">>
  ELSE toFixed1(pct) \o <<"%">>

padEnd(s, targetLength) == s \o [i \in 1..(targetLength - Len(s)) |-> " "]

padStart(s, targetLength) == [i \in 1..(targetLength - Len(s)) |-> " "] \o s

substring(s, from, to) == SubSeq(s, from + 1, Min(to, Len(s)))

toUpperCase(g) ==
  CASE g = "p" -> "P" [] g = "f" -> "F" [] g = "b" -> "B" [] g = "e" -> "E"
    [] OTHER -> g

toTitleCase(str) ==
  IF str = <<>> THEN <<>> ELSE <<toUpperCase(str[1])>> \o SubSeq(str, 2, Len(str))

----------------------------------------------------------------------------
(* Box layout engine                                                       *)

drawBoxTop(width) == dim(<<"BoxTL", "BoxH">> \o Repeat("BoxH", width) \o <<"BoxH", "BoxTR">>)

drawBoxSeparator(width) == dim(<<"BoxLT", "BoxH">> \o Repeat("BoxH", width) \o <<"BoxH", "BoxRT">>)

drawBoxBottom(width) == dim(<<"BoxBL", "BoxH">> \o Repeat("BoxH", width) \o <<"BoxH", "BoxBR">>)

printBoxLine(text, width) ==
  LET textW == stringWidth(text)
      padding == (width - textW) \div 2
      rightPad == width - textW - padding
  IN  dim(<<"BoxV", " ">>) \o Repeat(" ", padding) \o text \o Repeat(" ", rightPad)
        \o dim(<<" ", "BoxV">>)

printBoxLeft_PadOneMore(text, width) ==
  LET textW == stringWidth(text)
      rightPad == width - textW + 1
  IN  dim(<<"BoxV", " ">>) \o text \o Repeat(" ", Max(0, rightPad)) \o dim(<<" ", "BoxV">>)

printBoxLeft(text, width) ==
  LET textW == stringWidth(text)
      rightPad == width - textW
  IN  dim(<<"BoxV", " ">>) \o text \o Repeat(" ", Max(0, rightPad)) \o dim(<<" ", "BoxV">>)

printBoxLeftRight(leftText, rightText, width) ==
  LET leftW == stringWidth(leftText)
      rightW == stringWidth(rightText)
      gap == Max(1, width - leftW - rightW)
  IN  dim(<<"BoxV", " ">>) \o leftText \o Repeat(" ", gap) \o rightText \o dim(<<" ", "BoxV">>)

----------------------------------------------------------------------------
(* Reset countdown                                                         *)

SEVEN_DAYS_MS == 604800000

TxtIn == <<"i", "n", " ">>
TxtDay == <<" ", "d", "a", "y">>
TxtDays == <<" ", "d", "a", "y", "s">>
TxtMin == <<"m", "i", "n">>

formatTimeUntilReset_SevenDaysIncluded(now, resetDate) ==
  LET diffMs == resetDate.time - now.time
      totalMinutes == diffMs \div 60000
      totalHours == diffMs \div 3600000
      days == diffMs \div 86400000
      remainingMinutes == totalMinutes % 60
  IN  IF diffMs <= 0 \/ diffMs > SEVEN_DAYS_MS THEN <<>>
      ELSE IF totalHours >= 24
        THEN TxtIn \o Digits(days) \o (IF days = 1 THEN TxtDay ELSE TxtDays)
      ELSE IF totalHours >= 12 THEN TxtIn \o Digits(totalHours) \o <<"h">>
      ELSE IF totalHours = 0 THEN TxtIn \o Digits(remainingMinutes) \o TxtMin
      ELSE TxtIn \o Digits(totalHours) \o <<"h", " ">> \o Digits(remainingMinutes) \o TxtMin

formatTimeUntilReset_HoursAbove12(now, resetDate) ==
  LET diffMs == resetDate.time - now.time
      totalMinutes == diffMs \div 60000
      totalHours == diffMs \div 3600000
      days == diffMs \div 86400000
      remainingMinutes == totalMinutes % 60
  IN  IF diffMs <= 0 \/ diffMs >= SEVEN_DAYS_MS THEN <<>>
      ELSE IF totalHours >= 24
        THEN TxtIn \o Digits(days) \o (IF days = 1 THEN TxtDay ELSE TxtDays)
      ELSE IF totalHours > 12 THEN TxtIn \o Digits(totalHours) \o <<"h">>
      ELSE IF totalHours = 0 THEN TxtIn \o Digits(remainingMinutes) \o TxtMin
      ELSE TxtIn \o Digits(totalHours) \o <<"h", " ">> \o Digits(remainingMinutes) \o TxtMin

formatTimeUntilReset_TotalMinutes(now, resetDate) ==
  LET diffMs == resetDate.time - now.time
      totalMinutes == diffMs \div 60000
      totalHours == diffMs \div 3600000
      days == diffMs \div 86400000
      remainingMinutes == totalMinutes
  IN  IF diffMs <= 0 \/ diffMs >= SEVEN_DAYS_MS THEN <<>>
      ELSE IF totalHours >= 24
        THEN TxtIn \o Digits(days) \o (IF days = 1 THEN TxtDay ELSE TxtDays)
      ELSE IF totalHours >= 12 THEN TxtIn \o Digits(totalHours) \o <<"h">>
      ELSE IF totalHours = 0 THEN TxtIn \o Digits(remainingMinutes) \o TxtMin
      ELSE TxtIn \o Digits(totalHours) \o <<"h", " ">> \o Digits(remainingMinutes) \o TxtMin

(* null is the empty sequence: every suffix the code builds is non-empty.  *)
formatTimeUntilReset(now, resetDate) ==
  LET diffMs == resetDate.time - now.time
      totalMinutes == diffMs \div 60000
      totalHours == diffMs \div 3600000
      days == diffMs \div 86400000
      remainingMinutes == totalMinutes % 60
  IN  IF diffMs <= 0 \/ diffMs >= SEVEN_DAYS_MS THEN <<>>
      ELSE IF totalHours >= 24
        THEN TxtIn \o Digits(days) \o (IF days = 1 THEN TxtDay ELSE TxtDays)
      ELSE IF totalHours >= 12 THEN TxtIn \o Digits(totalHours) \o <<"h">>
      ELSE IF totalHours = 0 THEN TxtIn \o Digits(remainingMinutes) \o TxtMin
      ELSE TxtIn \o Digits(totalHours) \o <<"h", " ">> \o Digits(remainingMinutes) \o TxtMin

----------------------------------------------------------------------------
(* Display composer                                                        *)
(*                                                                         *)
(* renderDisplay reads data.now and data.nextResetDate as Dates; a Date is *)
(* a record here: time (getTime), and for nextResetDate the local month    *)
(* name and year that toLocaleString and getFullYear return.               *)

TxtTitleHead == <<"G", "i", "t", "H", "u", "b", " ", "C", "o", "p", "i", "l", "o", "t", " ">>
TxtTitleTail == <<" ", "-", " ", "P", "r", "e", "m", "i", "u", "m", " ", "R", "e", "q", "u", "e", "s", "t", "s", " ", "U", "s", "a", "g", "e">>
TxtOverall == <<"O", "v", "e", "r", "a", "l", "l", ":", " ", " ">>
TxtUsage == <<"U", "s", "a", "g", "e", ":", " ", " ", " ", " ">>
TxtMonth == <<"M", "o", "n", "t", "h", ":", " ", " ", " ", " ">>
TxtResets == <<"R", "e", "s", "e", "t", "s", ":", " ", " ", " ">>
TxtDayOne == <<" ", "1", ",", " ">>
TxtAtUtc == <<" ", "a", "t", " ", "0", "0", ":", "0", "0", " ", "U", "T", "C">>
TxtPerModel == <<"P", "e", "r", "-", "m", "o", "d", "e", "l", " ", "u", "s", "a", "g", "e", ":">>
TxtNoUsage == <<"N", "o", " ", "p", "r", "e", "m", "i", "u", "m", " ", "r", "e", "q", "u", "e", "s", "t", "s", " ", "u", "s", "e", "d", " ", "y", "e", "t", ".">>

NL == "\n"

RECURSIVE joinLines(_)
joinLines(lines) ==
  IF Len(lines) = 0 THEN <<>>
  ELSE IF Len(lines) = 1 THEN lines[1]
  ELSE lines[1] \o <<NL>> \o joinLines(Tail(lines))

(* Array.prototype.sort with the comparator (a, b) => b[1] - a[1]: a stable *)
(* sort, so an entry goes before the first entry of strictly lower count.   *)
RECURSIVE insertSorted(_, _)
insertSorted(sorted, e) ==
  IF sorted = <<>> THEN <<e>>
  ELSE IF RLt(sorted[1].count, e.count) THEN <<e>> \o sorted
  ELSE <<sorted[1]>> \o insertSorted(Tail(sorted), e)

sortByCountDesc_Unsorted(entries) == entries

RECURSIVE sortByCountDesc(_)
sortByCountDesc(entries) ==
  IF entries = <<>> THEN <<>>
  ELSE insertSorted(sortByCountDesc(SubSeq(entries, 1, Len(entries) - 1)), entries[Len(entries)])

modelDisplayOf(model) ==
  IF Len(model) > MODEL_NAME_WIDTH
    THEN substring(model, 0, MODEL_NAME_WIDTH - 1) \o <<"ELLIPSIS">>
    ELSE model

modelLineOf(e, limit, smallBarWidth) ==
  LET modelPctValue == RMulInt(RDivInt(e.count, limit), 100)
      modelPct == formatPercentage(modelPctValue)
      modelDisplay == modelDisplayOf(e.model)
      smallBar == drawBar(e.count, limit, smallBarWidth, getModelColor(modelPctValue))
  IN  padEnd(modelDisplay, MODEL_NAME_WIDTH)
        \o padStart(Digits(mathRound(e.count)), MODEL_USAGE_COUNT_WIDTH)
        \o <<" ">> \o smallBar \o <<" ">>
        \o padStart(modelPct, MODEL_USAGE_PCT_WIDTH)

(* The loop over modelsSorted, skipping the entries of count 0.            *)
RECURSIVE modelRows(_, _, _, _)
modelRows(modelsSorted, limit, smallBarWidth, boxInnerWidth) ==
  IF modelsSorted = <<>> THEN <<>>
  ELSE IF modelsSorted[1].count.n = 0
    THEN modelRows(Tail(modelsSorted), limit, smallBarWidth, boxInnerWidth)
  ELSE <<printBoxLeft(modelLineOf(modelsSorted[1], limit, smallBarWidth), boxInnerWidth)>>
         \o modelRows(Tail(modelsSorted), limit, smallBarWidth, boxInnerWidth)

hasUsageOf_AnyEntry(modelCounts) == Len(modelCounts) > 0

hasUsageOf(modelCounts) ==
  \E i \in 1..Len(modelCounts) : RLt(Rat(0, 1), modelCounts[i].count)

modelLinesOf(modelCounts, limit, smallBarWidth, boxInnerWidth) ==
  IF ~hasUsageOf(modelCounts) THEN printBoxLeft(TxtNoUsage, boxInnerWidth)
  ELSE joinLines(modelRows(sortByCountDesc(modelCounts), limit, smallBarWidth, boxInnerWidth))

renderText(data, plan, limit, width) ==
  LET boxOuterWidth == width
      boxInnerWidth == boxOuterWidth - 4
      largeBarWidth == boxInnerWidth - 10
      smallBarWidth == boxInnerWidth - MODEL_NAME_WIDTH - MODEL_USAGE_COUNT_WIDTH
                         - MODEL_USAGE_PCT_WIDTH - 2
      percentage == RMulInt(RDivInt(data.totalUsage, limit), 100)
      monthProgress == Rat(data.currentDay, data.daysInMonth)
      color == getOverallColor(percentage, monthProgress)
      nextMonthName == data.nextResetDate.localMonthName
      nextYear == data.nextResetDate.localYear
      timeUntilReset ==
        IF width >= 60 THEN formatTimeUntilReset(data.now, data.nextResetDate) ELSE <<>>
      resetLabel ==
        styleText(<<IF color = "green" THEN "dim" ELSE color>>,
                  TxtResets \o nextMonthName \o TxtDayOne \o Digits(nextYear) \o TxtAtUtc)
      center(text) == printBoxLine(text, boxInnerWidth)
      left(text) == printBoxLeft(text, boxInnerWidth)
  IN  joinLines(<<
        drawBoxTop(boxInnerWidth),
        center(<<>>),
        center(TxtTitleHead \o toTitleCase(plan) \o TxtTitleTail),
        center(data.monthName \o <<" ">> \o Digits(data.year) \o <<" ", "BULLET", " ">>
                 \o data.username),
        center(<<>>),
        drawBoxSeparator(boxInnerWidth),
        left(TxtOverall \o styleText(<<"bold">>, numberToString(data.totalUsage))
               \o dim(<<"/">> \o Digits(limit) \o <<" ", "(">>)
               \o styleText(<<color, "bold">>, toFixed1(percentage) \o <<"%">>)
               \o dim(<<")">>)),
        left(TxtUsage \o drawBar(data.totalUsage, limit, largeBarWidth, color)),
        left(TxtMonth \o drawMonthProgressBar(data.currentDay, data.daysInMonth, largeBarWidth)),
        center(<<>>),
        IF timeUntilReset # <<>>
          THEN printBoxLeftRight(resetLabel, dim(timeUntilReset), boxInnerWidth)
          ELSE left(resetLabel),
        drawBoxSeparator(boxInnerWidth),
        left(dim(TxtPerModel)),
        center(<<>>),
        modelLinesOf(data.modelCounts, limit, smallBarWidth, boxInnerWidth),
        center(<<>>),
        drawBoxBottom(boxInnerWidth),
        <<>>
      >>)

NoRet == [kind |-> "none"]

Return(v) == [kind |-> "return", value |-> v]

Throw(e) == [kind |-> "throw", error |-> e]

TypeError == "TypeError"

(* A snapshot without the property now hands undefined to                  *)
(* formatTimeUntilReset (line 162), whose now.getTime() raises a TypeError *)
(* before any line is composed; below 60 columns now is not read.          *)
renderDisplay(data, plan, limit, width) ==
  LET text == renderText(data, plan, limit, width)
  IN  IF width >= 60 /\ "now" \notin DOMAIN data THEN Throw(TypeError)
      ELSE IF Throws(text) THEN Throw(RangeError)
      ELSE Return(text)

----------------------------------------------------------------------------
(* Usage fetcher: src/src/usage.ts                                         *)
(*                                                                         *)
(* A JSON value is a record with a type tag and one field per shape it can *)
(* take; the fields of the other shapes hold a default.  A Date is its UTC *)
(* calendar reading [year, month (0-11), day, hour]; the local getters     *)
(* read it shifted by the time-zone offset of the process, in hours.       *)

RAdd(x, y) == Norm(x.n * y.d + y.n * x.d, x.d * y.d)

TxtUnknown == <<"U", "n", "k", "n", "o", "w", "n">>
LoginParseReason == "Could not parse login from /user response"

(* parsed.error.message: the text zod builds for the failed validation.    *)
ZodErrorMessage == "parsed.error.message"

JNumber(x) == [type |-> "number", num |-> x, str |-> <<>>]
JString(s) == [type |-> "string", num |-> Rat(0, 1), str |-> s]
JNull == [type |-> "null", num |-> Rat(0, 1), str |-> <<>>]
JUndefined == [type |-> "undefined", num |-> Rat(0, 1), str |-> <<>>]

JArray(items) == [type |-> "array", items |-> items]
JNoArray(t) == [type |-> t, items |-> <<>>]

JObject(usageItems, login) == [type |-> "object", usageItems |-> usageItems, login |-> login]
JNotObject(t) == [type |-> t, usageItems |-> JNoArray("undefined"), login |-> JUndefined]

FetchError(reason, cause) == [tag |-> "FetchError", reason |-> reason, cause |-> cause]

ParseError(reason) == [tag |-> "ParseError", reason |-> reason]

(* z.object({ grossQuantity: z.number(), model: z.string().optional() })   *)
usageItemSchema(item) ==
  /\ item.grossQuantity.type = "number"
  /\ item.model.type \in {"string", "undefined"}

(* z.object({ usageItems: z.array(usageItemSchema).optional() })           *)
usageResponseSchema(raw) ==
  /\ raw.type = "object"
  /\ \/ raw.usageItems.type = "undefined"
     \/ /\ raw.usageItems.type = "array"
        /\ \A i \in 1..Len(raw.usageItems.items) : usageItemSchema(raw.usageItems.items[i])

(* z.object({ login: z.string() })                                         *)
loginSchema(raw) == raw.type = "object" /\ raw.login.type = "string"

(* fetcher(url).catch(...): a resolved value passes, a rejection becomes a *)
(* FetchError whose reason is e.message for an Error and String(e) else.   *)
(* The fetcher is an async function: it settles its promise and raises     *)
(* nothing at the call itself.                                             *)
catchFetch(fetcher) ==
  IF fetcher.outcome = "reject"
    THEN FetchError(fetcher.rejection.text,
                    IF fetcher.rejection.isError THEN "Error" ELSE "undefined")
    ELSE [tag |-> "raw", value |-> fetcher.value]

RECURSIVE reduceSum(_)
reduceSum(items) ==
  IF items = <<>> THEN Rat(0, 1)
  ELSE RAdd(reduceSum(SubSeq(items, 1, Len(items) - 1)),
            items[Len(items)].grossQuantity.num)

(* Map.set on an insertion-ordered map held as a sequence of entries.      *)
mapSetAdd(counts, model, quantity) ==
  IF \E i \in 1..Len(counts) : counts[i].model = model
    THEN [i \in 1..Len(counts) |->
            IF counts[i].model = model
              THEN [model |-> model, count |-> RAdd(counts[i].count, quantity)]
              ELSE counts[i]]
    ELSE Append(counts, [model |-> model, count |-> RAdd(Rat(0, 1), quantity)])

RECURSIVE countByModel(_)
countByModel(items) ==
  IF items = <<>> THEN <<>>
  ELSE LET item == items[Len(items)]
           model == IF item.model.type = "undefined" THEN TxtUnknown ELSE item.model.str
       IN  mapSetAdd(countByModel(SubSeq(items, 1, Len(items) - 1)), model,
                     item.grossQuantity.num)

IsLeapYear(y) == (y % 4 = 0 /\ y % 100 # 0) \/ y % 400 = 0

(* new Date(year, month + 1, 0).getDate(), month counted from 0.           *)
DaysInMonthOf(y, m) ==
  IF m = 1 THEN (IF IsLeapYear(y) THEN 29 ELSE 28)
  ELSE IF m \in {3, 5, 8, 10} THEN 30
  ELSE 31

(* The calendar reading of a Date in the zone tz hours east of UTC.        *)
LocalOf(date, tz) ==
  LET h == date.hour + tz
  IN  IF h < 0 THEN
        IF date.day > 1
          THEN [year |-> date.year, month |-> date.month, day |-> date.day - 1, hour |-> h + 24]
        ELSE IF date.month > 0
          THEN [year |-> date.year, month |-> date.month - 1,
                day |-> DaysInMonthOf(date.year, date.month - 1), hour |-> h + 24]
        ELSE [year |-> date.year - 1, month |-> 11, day |-> 31, hour |-> h + 24]
      ELSE IF h >= 24 THEN
        IF date.day < DaysInMonthOf(date.year, date.month)
          THEN [year |-> date.year, month |-> date.month, day |-> date.day + 1, hour |-> h - 24]
        ELSE IF date.month < 11
          THEN [year |-> date.year, month |-> date.month + 1, day |-> 1, hour |-> h - 24]
        ELSE [year |-> date.year + 1, month |-> 0, day |-> 1, hour |-> h - 24]
      ELSE [date EXCEPT !.hour = h]

getFullYear(date, tz) == LocalOf(date, tz).year
getMonth(date, tz) == LocalOf(date, tz).month
getDate(date, tz) == LocalOf(date, tz).day

(* new Date(Date.UTC(year, monthIndex, day))                               *)
DateUTC(y, m, d) == [year |-> y, month |-> m, day |-> d, hour |-> 0]

(* toLocaleString('en-US', { month: 'long' })                              *)
MonthName(m) ==
  CASE m = 0 -> <<"J", "a", "n", "u", "a", "r", "y">>
    [] m = 1 -> <<"F", "e", "b", "r", "u", "a", "r", "y">>
    [] m = 2 -> <<"M", "a", "r", "c", "h">>
    [] m = 3 -> <<"A", "p", "r", "i", "l">>
    [] m = 4 -> <<"M", "a", "y">>
    [] m = 5 -> <<"J", "u", "n", "e">>
    [] m = 6 -> <<"J", "u", "l", "y">>
    [] m = 7 -> <<"A", "u", "g", "u", "s", "t">>
    [] m = 8 -> <<"S", "e", "p", "t", "e", "m", "b", "e", "r">>
    [] m = 9 -> <<"O", "c", "t", "o", "b", "e", "r">>
    [] m = 10 -> <<"N", "o", "v", "e", "m", "b", "e", "r">>
    [] OTHER -> <<"D", "e", "c", "e", "m", "b", "e", "r">>

padStartWith(s, targetLength, fill) == [i \in 1..(targetLength - Len(s)) |-> fill] \o s

fetchUsage_Unrounded(username, now, tz, fetcher) ==
  LET year == getFullYear(now, tz)
      month == padStartWith(Digits(getMonth(now, tz) + 1), 2, "0")
      rawOrError == catchFetch(fetcher)
      raw == rawOrError.value
      items == IF raw.usageItems.type = "undefined" THEN <<>> ELSE raw.usageItems.items
      totalUsage == reduceSum(items)
      modelCounts == countByModel(items)
      monthName == MonthName(getMonth(now, tz))
      currentDay == getDate(now, tz)
      daysInMonth == DaysInMonthOf(year, getMonth(now, tz))
      nextMonthIndex == IF getMonth(now, tz) = 11 THEN 0 ELSE getMonth(now, tz) + 1
      nextYear == IF getMonth(now, tz) = 11 THEN year + 1 ELSE year
      nextResetDate == DateUTC(nextYear, nextMonthIndex, 1)
  IN  IF rawOrError.tag = "FetchError" THEN rawOrError
      ELSE IF ~usageResponseSchema(raw) THEN ParseError(ZodErrorMessage)
      ELSE [tag |-> "UsageData", username |-> username, year |-> year, month |-> month,
            monthName |-> monthName, currentDay |-> currentDay,
            daysInMonth |-> daysInMonth, nextResetDate |-> nextResetDate,
            totalUsage |-> totalUsage, modelCounts |-> modelCounts]

fetchUsage_NoYearWrap(username, now, tz, fetcher) ==
  LET year == getFullYear(now, tz)
      month == padStartWith(Digits(getMonth(now, tz) + 1), 2, "0")
      rawOrError == catchFetch(fetcher)
      raw == rawOrError.value
      items == IF raw.usageItems.type = "undefined" THEN <<>> ELSE raw.usageItems.items
      totalUsage == Norm(mathRound(RMulInt(reduceSum(items), 100)), 100)
      modelCounts == countByModel(items)
      monthName == MonthName(getMonth(now, tz))
      currentDay == getDate(now, tz)
      daysInMonth == DaysInMonthOf(year, getMonth(now, tz))
      nextMonthIndex == IF getMonth(now, tz) = 11 THEN 0 ELSE getMonth(now, tz) + 1
      nextYear == year
      nextResetDate == DateUTC(nextYear, nextMonthIndex, 1)
  IN  IF rawOrError.tag = "FetchError" THEN rawOrError
      ELSE IF ~usageResponseSchema(raw) THEN ParseError(ZodErrorMessage)
      ELSE [tag |-> "UsageData", username |-> username, year |-> year, month |-> month,
            monthName |-> monthName, currentDay |-> currentDay,
            daysInMonth |-> daysInMonth, nextResetDate |-> nextResetDate,
            totalUsage |-> totalUsage, modelCounts |-> modelCounts]

fetchUsage(username, now, tz, fetcher) ==
  LET year == getFullYear(now, tz)
      month == padStartWith(Digits(getMonth(now, tz) + 1), 2, "0")
      rawOrError == catchFetch(fetcher)
      raw == rawOrError.value
      items == IF raw.usageItems.type = "undefined" THEN <<>> ELSE raw.usageItems.items
      totalUsage == Norm(mathRound(RMulInt(reduceSum(items), 100)), 100)
      modelCounts == countByModel(items)
      monthName == MonthName(getMonth(now, tz))
      currentDay == getDate(now, tz)
      daysInMonth == DaysInMonthOf(year, getMonth(now, tz))
      nextMonthIndex == IF getMonth(now, tz) = 11 THEN 0 ELSE getMonth(now, tz) + 1
      nextYear == IF getMonth(now, tz) = 11 THEN year + 1 ELSE year
      nextResetDate == DateUTC(nextYear, nextMonthIndex, 1)
  IN  IF rawOrError.tag = "FetchError" THEN rawOrError
      ELSE IF ~usageResponseSchema(raw) THEN ParseError(ZodErrorMessage)
      ELSE [tag |-> "UsageData", username |-> username, year |-> year, month |-> month,
            monthName |-> monthName, currentDay |-> currentDay,
            daysInMonth |-> daysInMonth, nextResetDate |-> nextResetDate,
            totalUsage |-> totalUsage, modelCounts |-> modelCounts]

fetchUsername_NoValidation(fetcher) ==
  LET rawOrError == catchFetch(fetcher)
      raw == rawOrError.value
  IN  IF rawOrError.tag = "FetchError" THEN rawOrError
      ELSE [tag |-> "string", str |-> raw.login.str]

fetchUsername(fetcher) ==
  LET rawOrError == catchFetch(fetcher)
      raw == rawOrError.value
  IN  IF rawOrError.tag = "FetchError" THEN rawOrError
      ELSE IF ~loginSchema(raw) THEN ParseError(LoginParseReason)
      ELSE [tag |-> "string", str |-> raw.login.str]

----------------------------------------------------------------------------
(* Configuration resolver: config.ts (src/unnamed/part_000)                *)
(*                                                                         *)
(* An optional string is [defined, str]; a JavaScript value that may not   *)
(* be a number is [type, num].                                             *)

UpperLetters ==
  <<"A", "B", "C", "D", "E", "F", "G", "H", "I", "J", "K", "L", "M",
    "N", "O", "P", "Q", "R", "S", "T", "U", "V", "W", "X", "Y", "Z">>

LowerLetters ==
  <<"a", "b", "c", "d", "e", "f", "g", "h", "i", "j", "k", "l", "m",
    "n", "o", "p", "q", "r", "s", "t", "u", "v", "w", "x", "y", "z">>

(* String.prototype.toLowerCase *)
toLowerCase(str) ==
  [i \in 1..Len(str) |->
     IF \E k \in 1..26 : UpperLetters[k] = str[i]
       THEN LowerLetters[CHOOSE k \in 1..26 : UpperLetters[k] = str[i]]
       ELSE str[i]]

WhiteSpace == {" ", NL, "TAB"}

RECURSIVE trimStart(_)
trimStart(str) ==
  IF str # <<>> /\ str[1] \in WhiteSpace THEN trimStart(Tail(str)) ELSE str

(* String.prototype.trim *)
trim(str) == Reverse(trimStart(Reverse(trimStart(str))))

DecimalDigits == <<"0", "1", "2", "3", "4", "5", "6", "7", "8", "9">>

IsDigit(g) == \E k \in 1..10 : DecimalDigits[k] = g

DigitValue(g) == (CHOOSE k \in 1..10 : DecimalDigits[k] = g) - 1

RECURSIVE digitPrefix(_)
digitPrefix(str) ==
  IF str # <<>> /\ IsDigit(str[1]) THEN <<str[1]>> \o digitPrefix(Tail(str)) ELSE <<>>

RECURSIVE digitsValue(_)
digitsValue(ds) ==
  IF ds = <<>> THEN 0 ELSE 10 * digitsValue(SubSeq(ds, 1, Len(ds) - 1)) + DigitValue(ds[Len(ds)])

JsNaN == [type |-> "NaN", num |-> 0]
JsNumber(k) == [type |-> "number", num |-> k]
JsFunction == [type |-> "function", num |-> 0]
JsUndefined == [type |-> "undefined", num |-> 0]

(* parseInt(str, 10): leading white space, an optional sign, then the      *)
(* longest run of decimal digits; NaN when there is no digit there.        *)
parseInt(str) ==
  LET s == trimStart(str)
      signed == s # <<>> /\ s[1] \in {"-", "+"}
      ds == digitPrefix(IF signed THEN Tail(s) ELSE s)
  IN  IF ds = <<>> THEN JsNaN
      ELSE JsNumber(IF signed /\ s[1] = "-" THEN -digitsValue(ds) ELSE digitsValue(ds))

isNaN(v) == v.type = "NaN"

TxtFree == <<"f", "r", "e", "e">>
TxtPro == <<"p", "r", "o">>
TxtProPlus == <<"p", "r", "o", "+">>
TxtBusiness == <<"b", "u", "s", "i", "n", "e", "s", "s">>
TxtEnterprise == <<"e", "n", "t", "e", "r", "p", "r", "i", "s", "e">>
TxtConstructor == <<"c", "o", "n", "s", "t", "r", "u", "c", "t", "o", "r">>

PlanKeys == {TxtFree, TxtPro, TxtProPlus, TxtBusiness, TxtEnterprise}

(* PLANS[key]: PLANS is an object literal, so a key it does not own is     *)
(* looked up on Object.prototype, where 'constructor' is a function.       *)
PLANS(key) ==
  CASE key = TxtFree -> JsNumber(50)
    [] key = TxtPro -> JsNumber(300)
    [] key = TxtProPlus -> JsNumber(1500)
    [] key = TxtBusiness -> JsNumber(300)
    [] key = TxtEnterprise -> JsNumber(1000)
    [] key = TxtConstructor -> JsFunction
    [] OTHER -> JsUndefined

(* The truth value of a JavaScript value in a condition.                   *)
Truthy(v) == v.type = "function" \/ (v.type = "number" /\ v.num # 0)

DEFAULT_PLAN == TxtPro

Defined(s) == [defined |-> TRUE, str |-> s]
Undefined == [defined |-> FALSE, str |-> <<>>]

ConfigReadError == [tag |-> "ConfigReadError", str |-> <<>>]

(* readGhConfig after the await: the text the command printed, or a        *)
(* ConfigReadError when the command failed.                                *)
readGhConfig(shellExec) ==
  IF shellExec.outcome = "reject" THEN ConfigReadError
  ELSE [tag |-> "string", str |-> shellExec.text]

GhConfigCommand(key) == "gh config get " \o key

resolvePlanEarly_IgnoresEnv(cliPlan, env) ==
  LET envPlan == env.GH_COPILOT_PLAN
  IN  IF cliPlan.defined THEN [done |-> TRUE, value |-> cliPlan.str]
      ELSE [done |-> FALSE, value |-> <<>>]

(* resolvePlan up to its await: the layers that need no config read.       *)
resolvePlanEarly(cliPlan, env) ==
  LET envPlan == env.GH_COPILOT_PLAN
  IN  IF cliPlan.defined THEN [done |-> TRUE, value |-> cliPlan.str]
      ELSE IF envPlan.defined /\ Truthy(PLANS(toLowerCase(envPlan.str)))
        THEN [done |-> TRUE, value |-> toLowerCase(envPlan.str)]
      ELSE [done |-> FALSE, value |-> <<>>]

(* resolvePlan from its await on.                                          *)
resolvePlanFromConfig(configPlan) ==
  LET planKey == toLowerCase(trim(configPlan.str))
  IN  IF configPlan.tag = "ConfigReadError" THEN DEFAULT_PLAN
      ELSE IF Truthy(PLANS(planKey)) THEN planKey
      ELSE DEFAULT_PLAN

(* resolveLimit up to its await.                                           *)
resolveLimitEarly(cliLimit, env) ==
  LET envLimit == env.GH_COPILOT_LIMIT
      parsed == parseInt(envLimit.str)
  IN  IF cliLimit.defined THEN [done |-> TRUE, value |-> JsNumber(cliLimit.num)]
      ELSE IF envLimit.defined /\ ~isNaN(parsed) /\ parsed.num > 0
        THEN [done |-> TRUE, value |-> parsed]
      ELSE [done |-> FALSE, value |-> JsUndefined]

(* PLANS[plan] ?? 300 *)
planDefault(plan) == IF PLANS(plan).type = "undefined" THEN JsNumber(300) ELSE PLANS(plan)

(* resolveLimit from its await on.                                         *)
resolveLimitFromConfig(configLimit, plan) ==
  LET parsed == parseInt(trim(configLimit.str))
  IN  IF configLimit.tag = "ConfigReadError" THEN planDefault(plan)
      ELSE IF ~isNaN(parsed) /\ parsed.num > 0 THEN parsed
      ELSE planDefault(plan)

----------------------------------------------------------------------------
(* Argument parser: cli.ts (src/unnamed/part_000)                          *)
(*                                                                         *)
(* util.parseArgs with strict: true and allowPositionals: true, for the    *)
(* options plan and limit (strings, -p and -l) and help and version        *)
(* (booleans, -h and -v).  An argument is a sequence of characters.        *)

OptPlan == <<"p", "l", "a", "n">>
OptLimit == <<"l", "i", "m", "i", "t">>
OptHelp == <<"h", "e", "l", "p">>
OptVersion == <<"v", "e", "r", "s", "i", "o", "n">>

startsWith(str, prefix) == Len(str) >= Len(prefix) /\ SubSeq(str, 1, Len(prefix)) = prefix

slice(str, from) == SubSeq(str, from + 1, Len(str))

(* The type of a configured option, "undefined" for any other name.        *)
optionType(name) ==
  IF name \in {OptPlan, OptLimit} THEN "string"
  ELSE IF name \in {OptHelp, OptVersion} THEN "boolean"
  ELSE "undefined"

findLongOptionForShort(shortOption) ==
  CASE shortOption = "p" -> OptPlan
    [] shortOption = "l" -> OptLimit
    [] shortOption = "h" -> OptHelp
    [] shortOption = "v" -> OptVersion
    [] OTHER -> <<shortOption>>

isLoneShortOption(arg) == Len(arg) = 2 /\ arg[1] = "-" /\ arg[2] # "-"

isShortOptionGroup(arg) ==
  /\ Len(arg) > 2 /\ arg[1] = "-" /\ arg[2] # "-"
  /\ optionType(findLongOptionForShort(arg[2])) # "string"

isShortOptionAndValue(arg) ==
  /\ Len(arg) > 2 /\ arg[1] = "-" /\ arg[2] # "-"
  /\ optionType(findLongOptionForShort(arg[2])) = "string"

(* The index of the first '=' from the fourth character on, 0 if none.     *)
equalsIndex(arg) ==
  IF \E i \in 4..Len(arg) : arg[i] = "="
    THEN CHOOSE i \in 4..Len(arg) : arg[i] = "=" /\ \A j \in 4..(i - 1) : arg[j] # "="
    ELSE 0

isLoneLongOption(arg) == Len(arg) > 2 /\ startsWith(arg, <<"-", "-">>) /\ equalsIndex(arg) = 0

isLongOptionAndValue(arg) == Len(arg) > 2 /\ startsWith(arg, <<"-", "-">>) /\ equalsIndex(arg) # 0

isOptionLikeValue(value) == value.defined /\ Len(value.str) > 1 /\ value.str[1] = "-"

(* A short option group as the arguments it stands for: one per boolean    *)
(* option, the rest of the group going to the first string option.         *)
RECURSIVE expandGroup(_)
expandGroup(chars) ==
  IF chars = <<>> THEN <<>>
  ELSE IF optionType(findLongOptionForShort(chars[1])) # "string" \/ Len(chars) = 1
    THEN <<(<<"-", chars[1]>>)>> \o expandGroup(Tail(chars))
  ELSE <<(<<"-">> \o chars)>>

NoValues ==
  [error |-> FALSE, plan |-> Undefined, limit |-> Undefined, help |-> FALSE, version |-> FALSE]

(* The strict checks of an option token, then storeOption.                 *)
storeOption(values, name, value, inlineValue) ==
  IF \/ optionType(name) = "undefined"
     \/ optionType(name) = "string" /\ ~value.defined
     \/ optionType(name) = "boolean" /\ value.defined
     \/ ~inlineValue /\ isOptionLikeValue(value)
    THEN [values EXCEPT !.error = TRUE]
  ELSE IF name = OptPlan THEN [values EXCEPT !.plan = value]
  ELSE IF name = OptLimit THEN [values EXCEPT !.limit = value]
  ELSE IF name = OptHelp THEN [values EXCEPT !.help = TRUE]
  ELSE [values EXCEPT !.version = TRUE]

RECURSIVE parseArgsFrom(_, _)
parseArgsFrom(remaining, values) ==
  IF remaining = <<>> \/ values.error THEN values
  ELSE
    LET arg == Head(remaining)
        rest == Tail(remaining)
        nextArg == IF rest = <<>> THEN Undefined ELSE Defined(Head(rest))
        shortName == findLongOptionForShort(arg[2])
        longName == slice(arg, 2)
        eq == equalsIndex(arg)
    IN  IF arg = <<"-", "-">> THEN values
        ELSE IF isLoneShortOption(arg) THEN
          IF optionType(shortName) = "string" /\ nextArg.defined
            THEN parseArgsFrom(Tail(rest), storeOption(values, shortName, nextArg, FALSE))
            ELSE parseArgsFrom(rest, storeOption(values, shortName, Undefined, FALSE))
        ELSE IF isShortOptionGroup(arg) THEN parseArgsFrom(expandGroup(Tail(arg)) \o rest, values)
        ELSE IF isShortOptionAndValue(arg)
          THEN parseArgsFrom(rest, storeOption(values, shortName, Defined(slice(arg, 2)), TRUE))
        ELSE IF isLoneLongOption(arg) THEN
          IF optionType(longName) = "string" /\ nextArg.defined
            THEN parseArgsFrom(Tail(rest), storeOption(values, longName, nextArg, FALSE))
            ELSE parseArgsFrom(rest, storeOption(values, longName, Undefined, FALSE))
        ELSE IF isLongOptionAndValue(arg)
          THEN parseArgsFrom(rest, storeOption(values, SubSeq(arg, 3, eq - 1),
                                               Defined(slice(arg, eq)), TRUE))
        ELSE parseArgsFrom(rest, values)

parseArgs(argv) == parseArgsFrom(argv, NoValues)

CliError(tag, value) ==
  [tag |-> tag, action |-> "none", plan |-> Undefined,
   limit |-> [defined |-> FALSE, num |-> 0], value |-> value]

CliResult(action, plan, limit) ==
  [tag |-> "CliResult", action |-> action, plan |-> plan, limit |-> limit, value |-> <<>>]

NoLimit == [defined |-> FALSE, num |-> 0]

parseCliArgs(argv) ==
  LET parsed == parseArgs(argv)
      rawPlan == parsed.plan
      rawLimit == parsed.limit
      planKey == toLowerCase(rawPlan.str)
      value == parseInt(rawLimit.str)
  IN  IF parsed.error THEN CliError("UnknownFlagError", <<>>)
      ELSE IF parsed.help THEN CliResult("help", Undefined, NoLimit)
      ELSE IF parsed.version THEN CliResult("version", Undefined, NoLimit)
      ELSE IF rawPlan.defined /\ ~Truthy(PLANS(planKey))
        THEN CliError("InvalidPlanError", rawPlan.str)
      ELSE IF rawLimit.defined /\ (isNaN(value) \/ value.num <= 0)
        THEN CliError("InvalidLimitError", rawLimit.str)
      ELSE CliResult("run",
                     IF rawPlan.defined THEN Defined(planKey) ELSE Undefined,
                     IF rawLimit.defined THEN [defined |-> TRUE, num |-> value.num] ELSE NoLimit)

----------------------------------------------------------------------------
(* Program entry: src/src/main.ts                                          *)
(*                                                                         *)
(* main is one async function; the process ends at process.exit, at the    *)
(* end of main, or at an error that nothing catches (main() has no catch:  *)
(* the runtime prints the error and exits with code 1).                    *)

NoExit == [exited |-> FALSE, code |-> 0]
Exit(code) == [exited |-> TRUE, code |-> code]

NoLocals ==
  [cliResult |-> CliError("unset", <<>>), plan |-> <<>>, limit |-> JsUndefined,
   username |-> [tag |-> "unset"], usage |-> [tag |-> "unset"]]

(* console.error(`Error: ${e.message}`): one line, the message being the   *)
(* text of the tagged error e.                                             *)
ErrorLine(e) == [prefix |-> "Error: ", message |-> e.tag]

(* What the runtime prints for an error nothing caught.                    *)
UncaughtReport(e) == [prefix |-> "", message |-> e]

(* console.log(text); the texts of --help and --version are constants.     *)
Printed(what, text) == [what |-> what, text |-> text]

(* Math.min(80, process.stdout.columns ?? 80); columns is undefined when   *)
(* standard output is not a terminal.                                      *)
widthOf(columns) == Min(80, IF columns.defined THEN columns.num ELSE 80)

(* The snapshot of fetchUsage as renderDisplay reads it: the properties    *)
(* fetchUsage returned (it returns no now); of nextResetDate, the local    *)
(* month name and year that line 159-160 read.                             *)
snapshotAsRead(usage, tz) ==
  [username |-> usage.username, year |-> usage.year, monthName |-> usage.monthName,
   totalUsage |-> usage.totalUsage, modelCounts |-> usage.modelCounts,
   currentDay |-> usage.currentDay, daysInMonth |-> usage.daysInMonth,
   nextResetDate |-> [localMonthName |-> MonthName(getMonth(usage.nextResetDate, tz)),
                      localYear |-> getFullYear(usage.nextResetDate, tz)]]

----------------------------------------------------------------------------
(* Inputs                                                                  *)

DaysInMonthSet == 28..31

MonthProgressSet ==
  {Rat(c, m) : <<c, m>> \in {dm \in (1..31) \X DaysInMonthSet : dm[1] <= dm[2]}}

LimitSet == {56, 58, 60, 62}

OverallArgs ==
  {[percentage |-> Rat(100 * u, l), monthProgress |-> mp] :
      <<u, l, mp>> \in (0..MaxUsed) \X LimitSet \X MonthProgressSet}

ModelColorArgs == {[percentage |-> Rat(k, 10)] : k \in 0..MaxPctTenths}

Colors == {"green", "yellow", "red"}

DrawBarArgs ==
  {[used |-> Rat(h, 2), total |-> t, width |-> w, color |-> c] :
      <<h, t, w, c>> \in (0..(2 * MaxTotal + 2)) \X (1..MaxTotal) \X (1..MaxBarWidth) \X Colors}

MonthBarArgs ==
  {[currentDay |-> dm[1], totalDays |-> dm[2], width |-> w] :
      <<dm, w>> \in {x \in (1..31) \X DaysInMonthSet : x[1] <= x[2]} \X (1..MaxMonthBarWidth)}

(* Category names: a short one, one longer than the name column, one of   *)
(* wide glyphs (12 code units, 24 cells), one that fills the column, and   *)
(* short distinct ones beyond.                                             *)
NameOf(i) ==
  CASE i = 1 -> <<"g", "p", "t", "-", "4", "o">>
    [] i = 2 -> Repeat("m", MaxNameLen)
    [] i = 3 -> Repeat("CJK", 12)
    [] i = 4 -> Repeat("n", MODEL_NAME_WIDTH)
    [] OTHER -> <<"o">> \o Digits(i)

(* Category usages, in hundredths of a request.                            *)
CountSet == {Rat(h, 100) : h \in {0, 1000, 22470, 22500, 27000}}

ModelMaps ==
  UNION {{[i \in 1..k |-> [model |-> NameOf(i), count |-> c[i]]] : c \in [1..k -> CountSet]} :
           k \in 0..MaxModels}
    \cup {<<[model |-> NameOf(i), count |-> c]>> : <<i, c>> \in (1..4) \X CountSet}

Widths == {60, 80, 100}

RenderLimits == {300, 1}

TotalUsages == {Rat(h, 100) : h \in {0, 33, 4200, 15000, 22500, 30000, 35000}}

DayPairs == {<<1, 30>>, <<15, 30>>, <<30, 30>>}

(* Header and reset-date scenarios: the snapshot of the tests, a December  *)
(* snapshot with the longest login GitHub allows, and a login too long to  *)
(* be centered in the narrower boxes.  Times are milliseconds from "now".  *)
HeaderJune ==
  [plan |-> <<"p", "r", "o", "+">>, username |-> <<"o", "c", "t", "o", "c", "a", "t">>, monthName |-> <<"J", "u", "n", "e">>, year |-> 2025,
   nextResetDate |-> [time |-> 266400000, localMonthName |-> <<"J", "u", "l", "y">>, localYear |-> 2025],
   now |-> [time |-> 0]]

HeaderDecember ==
  [plan |-> <<"e", "n", "t", "e", "r", "p", "r", "i", "s", "e">>, username |-> Repeat("u", MaxUsernameLen),
   monthName |-> <<"D", "e", "c", "e", "m", "b", "e", "r">>, year |-> 2025,
   nextResetDate |-> [time |-> 18420000, localMonthName |-> <<"J", "a", "n", "u", "a", "r", "y">>, localYear |-> 2026],
   now |-> [time |-> 0]]

HeaderLongLogin ==
  [plan |-> <<"f", "r", "e", "e">>, username |-> Repeat("u", 2 * MaxUsernameLen),
   monthName |-> <<"J", "u", "n", "e">>, year |-> 2025,
   nextResetDate |-> [time |-> 50400000, localMonthName |-> <<"J", "u", "l", "y">>, localYear |-> 2025],
   now |-> [time |-> 0]]

Headers == {HeaderJune, HeaderDecember, HeaderLongLogin}

DataOf(h, total, dp, counts) ==
  [username |-> h.username, year |-> h.year, monthName |-> h.monthName,
   totalUsage |-> total, modelCounts |-> counts,
   currentDay |-> dp[1], daysInMonth |-> dp[2],
   nextResetDate |-> h.nextResetDate, now |-> h.now]

(* Every header, total, day and limit with an empty or a one-entry map.    *)
OverallFamily ==
  {[data |-> DataOf(h, t, dp, m), plan |-> h.plan, limit |-> l, width |-> w] :
      <<h, t, dp, m, l, w>> \in
        Headers \X TotalUsages \X DayPairs
          \X {<<>>, <<[model |-> NameOf(1), count |-> Rat(1000, 100)]>>}
          \X RenderLimits \X Widths}

(* Every category map with one header, total and day.                      *)
RowsFamily ==
  {[data |-> DataOf(h, Rat(4200, 100), <<15, 30>>, m), plan |-> h.plan,
    limit |-> l, width |-> w] :
      <<h, m, l, w>> \in {HeaderJune} \X ModelMaps \X RenderLimits \X Widths}

(* Distances from "now" to the reset, in milliseconds: both sides of every *)
(* comparison of formatTimeUntilReset, and the ends of the range.          *)
ResetDiffs ==
  {-86400000, -1, 0, 1, 59999, 60000, 3540000, 3599999, 3600000, 3660000,
   18420000, 43199999, 43200000, 50400000, 86399999, 86400000, 100000000,
   172799999, 172800000, 266400000, 604799999, 604800000, 604800001,
   691200000}

NowSet == {0, 1000}

FormatTimeArgs ==
  {[now |-> [time |-> n], resetDate |-> [time |-> n + d]] :
      <<n, d>> \in NowSet \X ResetDiffs}

CountdownWidths == {59, 60, 80}

(* The June snapshot at every distance from the reset, below and from the  *)
(* width at which the countdown is shown.                                  *)
CountdownFamily ==
  {[data |-> DataOf([HeaderJune EXCEPT !.now = [time |-> n],
                                       !.nextResetDate.time = n + d],
                    t, <<15, 30>>, <<>>),
    plan |-> HeaderJune.plan, limit |-> 300, width |-> w] :
      <<n, d, t, w>> \in NowSet \X ResetDiffs
                         \X {Rat(4200, 100), Rat(30000, 100)} \X CountdownWidths}

(* Usage items: the quantities of the tests that round up, down and on the *)
(* half, under a named category, the literal "Unknown" and no model.       *)
QuantitySet == {Rat(10, 1), Rat(1333, 1000), Rat(5, 1000)}

ModelFieldSet == {JString(NameOf(1)), JString(TxtUnknown), JUndefined}

GoodItems == {[grossQuantity |-> JNumber(q), model |-> m] : <<q, m>> \in QuantitySet \X ModelFieldSet}

BadItems ==
  {[grossQuantity |-> JString(<<"n", "a", "n">>), model |-> JUndefined],
   [grossQuantity |-> JNumber(Rat(7, 1)), model |-> JNull],
   [grossQuantity |-> JUndefined, model |-> JString(NameOf(1))]}

ItemLists == UNION {[1..k -> GoodItems \cup BadItems] : k \in 0..MaxItems}

UsagePayloads ==
  {JObject(JArray(l), JUndefined) : l \in ItemLists}
    \cup {JObject(JNoArray(t), JUndefined) : t \in {"undefined", "null", "string"}}
    \cup {JNotObject("null"), JNotObject("string")}

TxtOctocat == <<"o", "c", "t", "o", "c", "a", "t">>

LoginPayloads ==
  {JObject(JNoArray("undefined"), l) : l \in {JString(TxtOctocat), JUndefined, JNull, JNumber(Rat(1, 1))}}
    \cup {JNotObject("null"), JNotObject("string")}

Rejections == {[isError |-> TRUE, text |-> "network error"], [isError |-> FALSE, text |-> "exit code 1"]}

Resolves(payload) ==
  [outcome |-> "resolve", value |-> payload, rejection |-> [isError |-> FALSE, text |-> ""]]

Rejects(rejection) ==
  [outcome |-> "reject", value |-> JNotObject("undefined"), rejection |-> rejection]

RejectingFetchers == {Rejects(r) : r \in Rejections}

(* Instants around every month and year end, read in zones on both sides   *)
(* of UTC.                                                                 *)
NowDates ==
  {[year |-> y, month |-> m, day |-> d, hour |-> h] :
     <<y, m, h>> \in {2024, 2025} \X (0..11) \X {0, 4, 12, 22},
     d \in {1, 15, 28}}
   \cup {[year |-> y, month |-> m, day |-> DaysInMonthOf(y, m), hour |-> h] :
     <<y, m, h>> \in {2024, 2025} \X (0..11) \X {0, 4, 12, 22}}

TzOffsets == {-12, -5, 0, 2, 14}

FIXED_DATE == [year |-> 2025, month |-> 5, day |-> 15, hour |-> 12]

FetchUsageArgs ==
  {[username |-> TxtOctocat, now |-> FIXED_DATE, tz |-> 0, fetcher |-> f] :
      f \in {Resolves(p) : p \in UsagePayloads} \cup RejectingFetchers}
    \cup {[username |-> TxtOctocat, now |-> n, tz |-> z, fetcher |-> Resolves(JObject(JArray(<<>>), JUndefined))] :
      <<n, z>> \in NowDates \X TzOffsets}

FetchUsernameArgs ==
  {[fetcher |-> f] : f \in {Resolves(p) : p \in LoginPayloads} \cup RejectingFetchers}

(* Configuration layers: the values of the tests, and values that are     *)
(* empty, padded, mixed-case, fractional or followed by other characters.  *)
CliPlans == {Undefined, Defined(TxtProPlus)}

EnvPlans ==
  {Undefined,
   Defined(<<"b", "u", "s", "i", "n", "e", "s", "s">>),
   Defined(<<"E", "N", "T", "E", "R", "P", "R", "I", "S", "E">>),
   Defined(<<"i", "n", "v", "a", "l", "i", "d">>),
   Defined(<<>>),
   Defined(<<"c", "o", "n", "s", "t", "r", "u", "c", "t", "o", "r">>),
   Defined(<<" ", "p", "r", "o">>),
   Defined(<<"P", "r", "o", "+">>)}

PlanConfigTexts ==
  {<<"p", "r", "o", "+", NL>>,
   <<"u", "n", "k", "n", "o", "w", "n", "_", "p", "l", "a", "n", NL>>,
   <<" ", " ", "B", "u", "s", "i", "n", "e", "s", "s", " ", NL>>,
   <<>>,
   <<"c", "o", "n", "s", "t", "r", "u", "c", "t", "o", "r", NL>>,
   <<"e", "n", "t", "e", "r", "p", "r", "i", "s", "e">>}

ShellOutcome(text) == [outcome |-> "resolve", text |-> text]
ShellFails == [outcome |-> "reject", text |-> <<>>]

ResolvePlanArgs ==
  {[cliPlan |-> c, env |-> [GH_COPILOT_PLAN |-> e, GH_COPILOT_LIMIT |-> Undefined], shellExec |-> x] :
      <<c, e, x>> \in CliPlans \X EnvPlans \X ({ShellFails} \cup {ShellOutcome(t) : t \in PlanConfigTexts})}

CliLimits == {[defined |-> FALSE, num |-> 0], [defined |-> TRUE, num |-> 500]}

EnvLimits ==
  {Undefined,
   Defined(<<"7", "5", "0">>),
   Defined(<<"a", "b", "c">>),
   Defined(<<"0">>),
   Defined(<<"-", "5">>),
   Defined(<<"1", "2", ".", "5">>),
   Defined(<<"3", "0", "0", "a", "b", "c">>),
   Defined(<<" ", "4", "2">>),
   Defined(<<>>)}

LimitConfigTexts ==
  {<<"1", "2", "0", "0", NL>>,
   <<"b", "a", "d", NL>>,
   <<"0", NL>>,
   <<"-", "3", NL>>,
   <<"9", "9", ".", "9", NL>>,
   <<>>}

ResolvedPlans == PlanKeys \cup {TxtConstructor}

ResolveLimitArgs ==
  {[cliLimit |-> c, plan |-> p, env |-> [GH_COPILOT_PLAN |-> Undefined, GH_COPILOT_LIMIT |-> e], shellExec |-> x] :
      <<c, p, e, x>> \in CliLimits \X ResolvedPlans \X EnvLimits
                         \X ({ShellFails} \cup {ShellOutcome(t) : t \in LimitConfigTexts})}

(* Arguments: every flag in its long or short form, an unknown flag, and   *)
(* the plan and limit values of the tests with values that are fractional, *)
(* followed by letters, or names that PLANS does not own.                  *)
ArgTokens ==
  {<<"-", "-", "h", "e", "l", "p">>,
   <<"-", "v">>,
   <<"-", "h", "v">>,
   <<"-", "-", "p", "l", "a", "n">>,
   <<"-", "p">>,
   <<"-", "-", "l", "i", "m", "i", "t">>,
   <<"-", "l">>,
   <<"-", "-", "u", "n", "k", "n", "o", "w", "n", "-", "f", "l", "a", "g">>,
   <<"p", "r", "o", "+">>,
   <<"P", "R", "O">>,
   <<"u", "n", "k", "n", "o", "w", "n">>,
   <<"c", "o", "n", "s", "t", "r", "u", "c", "t", "o", "r">>,
   <<"5", "0", "0">>,
   <<"a", "b", "c">>,
   <<"0">>,
   <<"1", "2", ".", "5">>,
   <<"-", "1", "0">>,
   <<"-", "-", "l", "i", "m", "i", "t", "=", "-", "1", "0">>,
   <<"-", "-", "p", "l", "a", "n", "=", "b", "o", "g", "u", "s">>,
   <<"-", "-", "l", "i", "m", "i", "t", "=", "1", "0", "a", "b", "c">>}

(* Bun.argv starts with the runtime and the script path.                   *)
ArgvPrefix == <<<<"b", "u", "n">>, <<"s", "r", "c", "/", "m", "a", "i", "n", ".", "t", "s">>>>

UserArgLists == UNION {[1..k -> ArgTokens] : k \in 0..MaxArgs}

ParseCliArgsInputs == {[argv |-> ArgvPrefix \o a] : a \in UserArgLists}

(* Runs of main: argument lists of every outcome of parseCliArgs, with or  *)
(* without an environment plan, a configuration that answers or fails,     *)
(* fetches that resolve to a valid or an invalid payload or reject, and    *)
(* terminals from 30 to 200 columns or none. The plan name 'constructor'   *)
(* is left out: it resolves to a limit that is not a number.               *)
MainArgLists ==
  {<<>>,
   <<<<"-", "-", "h", "e", "l", "p">>>>,
   <<<<"-", "v">>>>,
   <<<<"-", "h", "v">>>>,
   <<<<"-", "-", "u", "n", "k", "n", "o", "w", "n", "-", "f", "l", "a", "g">>>>,
   <<<<"-", "-", "p", "l", "a", "n", "=", "b", "o", "g", "u", "s">>>>,
   <<<<"-", "-", "l", "i", "m", "i", "t">>, <<"a", "b", "c">>>>,
   <<<<"-", "-", "p", "l", "a", "n">>, <<"p", "r", "o", "+">>>>,
   <<<<"-", "-", "l", "i", "m", "i", "t">>, <<"5", "0", "0">>>>}

MainEnvs ==
  {[GH_COPILOT_PLAN |-> e, GH_COPILOT_LIMIT |-> Undefined] :
      e \in {Undefined, Defined(<<"b", "u", "s", "i", "n", "e", "s", "s">>)}}

MainShells ==
  {[plan |-> ShellFails, limit |-> ShellFails],
   [plan |-> ShellOutcome(<<"p", "r", "o", "+", NL>>),
    limit |-> ShellOutcome(<<"1", "2", "0", "0", NL>>)]}

MainUserFetchers ==
  {Resolves(JObject(JNoArray("undefined"), JString(TxtOctocat))),
   Resolves(JNotObject("null")),
   Rejects([isError |-> TRUE, text |-> "network error"])}

MainUsageFetchers ==
  {Resolves(JObject(JArray(<<>>), JUndefined)),
   Resolves(JObject(JArray(<<[grossQuantity |-> JNumber(Rat(25, 2)), model |-> JString(<<"g", "p", "t">>)]>>), JUndefined)),
   Resolves(JNotObject("string")),
   Rejects([isError |-> FALSE, text |-> "exit code 1"])}

NoColumns == [defined |-> FALSE, num |-> 0]
Columns(n) == [defined |-> TRUE, num |-> n]

MainColumns == {NoColumns} \cup {Columns(n) : n \in {30, 40, 41, 46, 59, 60, 80, 200}}

MainInputs ==
  {[argv |-> ArgvPrefix \o a, env |-> e, shellExec |-> x,
    fetcher |-> [user |-> fu, usage |-> fg], columns |-> c, now |-> FIXED_DATE, tz |-> 0] :
      <<a, e, x>> \in MainArgLists \X MainEnvs \X MainShells,
      <<fu, fg, c>> \in MainUserFetchers \X MainUsageFetchers \X MainColumns}

(* Percentages in hundredths on both sides of 1000%, and whole ones on    *)
(* both sides of 1000 thousands.                                           *)
FormatPercentageArgs ==
  {[pct |-> Rat(k, 100)] : k \in 99900..100100}
    \cup {[pct |-> Rat(k, 1)] : k \in {0, 1, 75, 999, 1000, 1500, 999949, 999960, 1000000}}

(* Terminals of 41 to 59 columns, where both bar widths are positive, with *)
(* the shortest and the longest plan label of PLANS.                       *)
NarrowWidths == {41, 46, 47, 50, 53, 54, 59}

NarrowFamily ==
  {[data |-> DataOf(HeaderJune, Rat(4200, 100), <<15, 30>>, m), plan |-> pl,
    limit |-> 300, width |-> w] :
      <<m, pl, w>> \in {<<>>, <<[model |-> NameOf(1), count |-> Rat(1000, 100)]>>}
                        \X {TxtPro, TxtEnterprise} \X NarrowWidths}

(* Categories whose rounded count has six digits, or whose percentage     *)
(* reads in eight characters.                                              *)
LargeRowFamily ==
  {[data |-> DataOf(HeaderJune, Rat(4200, 100), <<15, 30>>,
                    <<[model |-> NameOf(1), count |-> cl[1]]>>),
    plan |-> HeaderJune.plan, limit |-> cl[2], width |-> w] :
      <<cl, w>> \in {<<Rat(99999, 1), 300>>, <<Rat(100000, 1), 300>>, <<Rat(199999, 2), 300>>,
                     <<Rat(9999, 1), 1>>, <<Rat(10000, 1), 1>>} \X {60, 80}}

RenderArgs ==
  OverallFamily \cup RowsFamily \cup CountdownFamily \cup NarrowFamily \cup LargeRowFamily

Init ==
  /\ pc = "call"
  /\ ret = NoRet
  /\ shellLog = <<>>
  /\ stdout = <<>>
  /\ stderr = <<>>
  /\ exitCode = NoExit
  /\ callLog = <<>>
  /\ locals = NoLocals
  /\ \/ fn = "getOverallColor" /\ args \in OverallArgs
     \/ fn = "getModelColor" /\ args \in ModelColorArgs
     \/ fn = "drawBar" /\ args \in DrawBarArgs
     \/ fn = "drawMonthProgressBar" /\ args \in MonthBarArgs
     \/ fn = "renderDisplay" /\ args \in RenderArgs
     \/ fn = "formatTimeUntilReset" /\ args \in FormatTimeArgs
     \/ fn = "fetchUsage" /\ args \in FetchUsageArgs
     \/ fn = "fetchUsername" /\ args \in FetchUsernameArgs
     \/ fn = "resolvePlan" /\ args \in ResolvePlanArgs
     \/ fn = "resolveLimit" /\ args \in ResolveLimitArgs
     \/ fn = "parseCliArgs" /\ args \in ParseCliArgsInputs
     \/ fn = "main" /\ args \in MainInputs
     \/ fn = "formatPercentage" /\ args \in FormatPercentageArgs

CallGetOverallColor ==
  /\ pc = "call" /\ fn = "getOverallColor"
  /\ ret' = Return(getOverallColor(args.percentage, args.monthProgress))
  /\ pc' = "done"
  /\ UNCHANGED <<fn, args, shellLog, mainVars>>

CallGetModelColor ==
  /\ pc = "call" /\ fn = "getModelColor"
  /\ ret' = Return(getModelColor(args.percentage))
  /\ pc' = "done"
  /\ UNCHANGED <<fn, args, shellLog, mainVars>>

CallDrawBar ==
  /\ pc = "call" /\ fn = "drawBar"
  /\ ret' = Return(drawBar(args.used, args.total, args.width, args.color))
  /\ pc' = "done"
  /\ UNCHANGED <<fn, args, shellLog, mainVars>>

CallDrawMonthProgressBar ==
  /\ pc = "call" /\ fn = "drawMonthProgressBar"
  /\ ret' = Return(drawMonthProgressBar(args.currentDay, args.totalDays, args.width))
  /\ pc' = "done"
  /\ UNCHANGED <<fn, args, shellLog, mainVars>>

CallRenderDisplay ==
  /\ pc = "call" /\ fn = "renderDisplay"
  /\ ret' = renderDisplay(args.data, args.plan, args.limit, args.width)
  /\ pc' = "done"
  /\ UNCHANGED <<fn, args, shellLog, mainVars>>

CallFormatTimeUntilReset ==
  /\ pc = "call" /\ fn = "formatTimeUntilReset"
  /\ ret' = Return(formatTimeUntilReset(args.now, args.resetDate))
  /\ pc' = "done"
  /\ UNCHANGED <<fn, args, shellLog, mainVars>>

CallFetchUsage ==
  /\ pc = "call" /\ fn = "fetchUsage"
  /\ ret' = Return(fetchUsage(args.username, args.now, args.tz, args.fetcher))
  /\ pc' = "done"
  /\ UNCHANGED <<fn, args, shellLog, mainVars>>

CallFetchUsername ==
  /\ pc = "call" /\ fn = "fetchUsername"
  /\ ret' = Return(fetchUsername(args.fetcher))
  /\ pc' = "done"
  /\ UNCHANGED <<fn, args, shellLog, mainVars>>

(* resolvePlan runs to its return, or to the await of readGhConfig after   *)
(* handing the command to shellExec.                                       *)
CallResolvePlan ==
  /\ pc = "call" /\ fn = "resolvePlan"
  /\ LET early == resolvePlanEarly(args.cliPlan, args.env)
     IN  IF early.done
           THEN /\ ret' = Return(early.value)
                /\ pc' = "done"
                /\ UNCHANGED shellLog
           ELSE /\ shellLog' = Append(shellLog, GhConfigCommand("copilot-usage.plan"))
                /\ pc' = "await"
                /\ UNCHANGED ret
  /\ UNCHANGED <<fn, args, mainVars>>

ResolvePlanAfterConfig ==
  /\ pc = "await" /\ fn = "resolvePlan"
  /\ ret' = Return(resolvePlanFromConfig(readGhConfig(args.shellExec)))
  /\ pc' = "done"
  /\ UNCHANGED <<fn, args, shellLog, mainVars>>

CallResolveLimit ==
  /\ pc = "call" /\ fn = "resolveLimit"
  /\ LET early == resolveLimitEarly(args.cliLimit, args.env)
     IN  IF early.done
           THEN /\ ret' = Return(early.value)
                /\ pc' = "done"
                /\ UNCHANGED shellLog
           ELSE /\ shellLog' = Append(shellLog, GhConfigCommand("copilot-usage.limit"))
                /\ pc' = "await"
                /\ UNCHANGED ret
  /\ UNCHANGED <<fn, args, mainVars>>

ResolveLimitAfterConfig ==
  /\ pc = "await" /\ fn = "resolveLimit"
  /\ ret' = Return(resolveLimitFromConfig(readGhConfig(args.shellExec), args.plan))
  /\ pc' = "done"
  /\ UNCHANGED <<fn, args, shellLog, mainVars>>

CallParseCliArgs ==
  /\ pc = "call" /\ fn = "parseCliArgs"
  /\ ret' = Return(parseCliArgs(args.argv))
  /\ pc' = "done"
  /\ UNCHANGED <<fn, args, shellLog, mainVars>>

CallFormatPercentage ==
  /\ pc = "call" /\ fn = "formatPercentage"
  /\ ret' = Return(formatPercentage(args.pct))
  /\ pc' = "done"
  /\ UNCHANGED <<fn, args, shellLog, mainVars>>

(* main, lines 19-34: the arguments are parsed; an error, --help and       *)
(* --version end the process here.                                         *)
MainParseArgs_ErrorContinues ==
  /\ pc = "call" /\ fn = "main"
  /\ callLog' = Append(callLog, "parseCliArgs")
  /\ LET cliResult == parseCliArgs(args.argv)
     IN  IF cliResult.tag # "CliResult"
           THEN /\ stderr' = Append(stderr, ErrorLine(cliResult))
                /\ locals' = [locals EXCEPT !.cliResult = cliResult]
                /\ pc' = "resolvePlan"
                /\ UNCHANGED <<stdout, exitCode>>
         ELSE IF cliResult.action = "help"
           THEN /\ stdout' = Append(stdout, Printed("help", <<>>))
                /\ exitCode' = Exit(0)
                /\ pc' = "exit"
                /\ UNCHANGED <<stderr, locals>>
         ELSE IF cliResult.action = "version"
           THEN /\ stdout' = Append(stdout, Printed("version", <<>>))
                /\ exitCode' = Exit(0)
                /\ pc' = "exit"
                /\ UNCHANGED <<stderr, locals>>
         ELSE /\ locals' = [locals EXCEPT !.cliResult = cliResult]
              /\ pc' = "resolvePlan"
              /\ UNCHANGED <<stdout, stderr, exitCode>>
  /\ UNCHANGED <<fn, args, ret, shellLog>>

MainParseArgs ==
  /\ pc = "call" /\ fn = "main"
  /\ callLog' = Append(callLog, "parseCliArgs")
  /\ LET cliResult == parseCliArgs(args.argv)
     IN  IF cliResult.tag # "CliResult"
           THEN /\ stderr' = Append(stderr, ErrorLine(cliResult))
                /\ exitCode' = Exit(1)
                /\ pc' = "exit"
                /\ UNCHANGED <<stdout, locals>>
         ELSE IF cliResult.action = "help"
           THEN /\ stdout' = Append(stdout, Printed("help", <<>>))
                /\ exitCode' = Exit(0)
                /\ pc' = "exit"
                /\ UNCHANGED <<stderr, locals>>
         ELSE IF cliResult.action = "version"
           THEN /\ stdout' = Append(stdout, Printed("version", <<>>))
                /\ exitCode' = Exit(0)
                /\ pc' = "exit"
                /\ UNCHANGED <<stderr, locals>>
         ELSE /\ locals' = [locals EXCEPT !.cliResult = cliResult]
              /\ pc' = "resolvePlan"
              /\ UNCHANGED <<stdout, stderr, exitCode>>
  /\ UNCHANGED <<fn, args, ret, shellLog>>

(* main, line 36: await resolvePlan(cliResult.plan, process.env, shellExec), *)
(* the configuration read included when no earlier layer decides.          *)
MainResolvePlan ==
  /\ pc = "resolvePlan" /\ fn = "main"
  /\ callLog' = Append(callLog, "resolvePlan")
  /\ LET early == resolvePlanEarly(locals.cliResult.plan, args.env)
     IN  IF early.done
           THEN /\ locals' = [locals EXCEPT !.plan = early.value]
                /\ UNCHANGED shellLog
           ELSE /\ shellLog' = Append(shellLog, GhConfigCommand("copilot-usage.plan"))
                /\ locals' = [locals EXCEPT
                                !.plan = resolvePlanFromConfig(readGhConfig(args.shellExec.plan))]
  /\ pc' = "resolveLimit"
  /\ UNCHANGED <<fn, args, ret, stdout, stderr, exitCode>>

(* main, line 37: await resolveLimit(cliResult.limit, plan, process.env,   *)
(* shellExec).                                                             *)
MainResolveLimit ==
  /\ pc = "resolveLimit" /\ fn = "main"
  /\ callLog' = Append(callLog, "resolveLimit")
  /\ LET early == resolveLimitEarly(locals.cliResult.limit, args.env)
     IN  IF early.done
           THEN /\ locals' = [locals EXCEPT !.limit = early.value]
                /\ UNCHANGED shellLog
           ELSE /\ shellLog' = Append(shellLog, GhConfigCommand("copilot-usage.limit"))
                /\ locals' = [locals EXCEPT
                                !.limit = resolveLimitFromConfig(
                                            readGhConfig(args.shellExec.limit), locals.plan)]
  /\ pc' = "fetchUsername"
  /\ UNCHANGED <<fn, args, ret, stdout, stderr, exitCode>>

(* main, lines 39-43.                                                      *)
MainFetchUsername ==
  /\ pc = "fetchUsername" /\ fn = "main"
  /\ callLog' = Append(callLog, "fetchUsername")
  /\ LET username == fetchUsername(args.fetcher.user)
     IN  IF username.tag # "string"
           THEN /\ stderr' = Append(stderr, ErrorLine(username))
                /\ exitCode' = Exit(1)
                /\ pc' = "exit"
                /\ UNCHANGED locals
           ELSE /\ locals' = [locals EXCEPT !.username = username]
                /\ pc' = "fetchUsage"
                /\ UNCHANGED <<stderr, exitCode>>
  /\ UNCHANGED <<fn, args, ret, shellLog, stdout>>

(* main, lines 45-49.                                                      *)
MainFetchUsage ==
  /\ pc = "fetchUsage" /\ fn = "main"
  /\ callLog' = Append(callLog, "fetchUsage")
  /\ LET usage == fetchUsage(locals.username.str, args.now, args.tz, args.fetcher.usage)
     IN  IF usage.tag # "UsageData"
           THEN /\ stderr' = Append(stderr, ErrorLine(usage))
                /\ exitCode' = Exit(1)
                /\ pc' = "exit"
                /\ UNCHANGED locals
           ELSE /\ locals' = [locals EXCEPT !.usage = usage]
                /\ pc' = "render"
                /\ UNCHANGED <<stderr, exitCode>>
  /\ UNCHANGED <<fn, args, ret, shellLog, stdout>>

(* main, lines 51-56, and the end of the process: code 0 after the report, *)
(* code 1 with the runtime's report when renderDisplay raised.             *)
MainRender ==
  /\ pc = "render" /\ fn = "main"
  /\ callLog' = Append(callLog, "renderDisplay")
  /\ LET width == widthOf(args.columns)
         output == renderDisplay(snapshotAsRead(locals.usage, args.tz), locals.plan,
                                 locals.limit.num, width)
     IN  IF output.kind = "throw"
           THEN /\ stderr' = Append(stderr, UncaughtReport(output.error))
                /\ exitCode' = Exit(1)
                /\ UNCHANGED stdout
           ELSE /\ stdout' = Append(stdout, Printed("report", output.value))
                /\ exitCode' = Exit(0)
                /\ UNCHANGED stderr
  /\ pc' = "exit"
  /\ UNCHANGED <<fn, args, ret, shellLog, locals>>

Next ==
  \/ CallGetOverallColor
  \/ CallGetModelColor
  \/ CallDrawBar
  \/ CallDrawMonthProgressBar
  \/ CallRenderDisplay
  \/ CallFormatTimeUntilReset
  \/ CallFetchUsage
  \/ CallFetchUsername
  \/ CallResolvePlan
  \/ ResolvePlanAfterConfig
  \/ CallResolveLimit
  \/ ResolveLimitAfterConfig
  \/ CallParseCliArgs
  \/ CallFormatPercentage
  \/ MainParseArgs
  \/ MainResolvePlan
  \/ MainResolveLimit
  \/ MainFetchUsername
  \/ MainFetchUsage
  \/ MainRender

Spec == Init /\ [][Next]_vars

----------------------------------------------------------------------------
(* Properties                                                              *)

Done(f) == pc = "done" /\ fn = f

Returned(f) == Done(f) /\ ret.kind = "return"

(* Classification of usage u/l on day c of m, by integer cross-products.   *)
BandOf(un, ud, c, m) ==
  IF un * m < ud * c THEN "green"
  ELSE IF 2 * un * m < ud * (m + c) THEN "yellow"
  ELSE "red"

RECURSIVE splitLines(_)
splitLines(text) ==
  IF \A i \in 1..Len(text) : text[i] # NL THEN <<text>>
  ELSE LET k == CHOOSE i \in 1..Len(text) :
                  text[i] = NL /\ \A j \in 1..(i - 1) : text[j] # NL
       IN  <<SubSeq(text, 1, k - 1)>> \o splitLines(SubSeq(text, k + 1, Len(text)))

StylesIn(s) == {f \in StyleNames : \E i \in 1..Len(s) : s[i] = EscOpen(f)}

OverallLineNo == 7
UsageBarLineNo == 8
FirstRowLineNo == 15

(* C1: getOverallColor returns green below the month cursor, yellow from   *)
(* the cursor up to the half-way point (1 + monthProgress) / 2, red from   *)
(* there on, also above 100%; renderDisplay styles the overall percentage  *)
(* and the large usage bar with exactly that color.                        *)
C1_OverallColorBands ==
  /\ Done("getOverallColor") =>
       ret.value = BandOf(args.percentage.n, 100 * args.percentage.d,
                          args.monthProgress.n, args.monthProgress.d)
  /\ Returned("renderDisplay") =>
       LET lines == splitLines(ret.value)
           band == BandOf(args.data.totalUsage.n, args.data.totalUsage.d * args.limit,
                          args.data.currentDay, args.data.daysInMonth)
       IN  /\ StylesIn(lines[OverallLineNo]) \cap Colors = {band}
           /\ StylesIn(lines[UsageBarLineNo]) \cap Colors = {band}

C1_Witness ==
  /\ Returned("renderDisplay")
  /\ args.data.totalUsage.n * args.data.daysInMonth
       = args.data.totalUsage.d * args.limit * args.data.currentDay
  /\ args.data.currentDay < args.data.daysInMonth
  /\ "yellow" \in StylesIn(splitLines(ret.value)[UsageBarLineNo])

(* C2 as stated: below the cursor green, at the cursor yellow, at the      *)
(* half-way point red, for every monthProgress in (0, 1].                  *)
C2_AsStated ==
  Done("getOverallColor") =>
    LET un == args.percentage.n
        ud == 100 * args.percentage.d
        c == args.monthProgress.n
        m == args.monthProgress.d
    IN  /\ un * m < ud * c => ret.value = "green"
        /\ un * m = ud * c => ret.value = "yellow"
        /\ 2 * un * m = ud * (m + c) => ret.value = "red"

(* C2 (amended): below the cursor green; at the cursor yellow on every day *)
(* but the last, where the cursor is the half-way point and the color is   *)
(* red; at the half-way point red.                                         *)
C2_BoundaryColors ==
  Done("getOverallColor") =>
    LET un == args.percentage.n
        ud == 100 * args.percentage.d
        c == args.monthProgress.n
        m == args.monthProgress.d
    IN  /\ un * m < ud * c => ret.value = "green"
        /\ un * m = ud * c /\ c < m => ret.value = "yellow"
        /\ un * m = ud * c /\ c = m => ret.value = "red"
        /\ 2 * un * m = ud * (m + c) => ret.value = "red"

C2_Witness ==
  /\ Done("getOverallColor")
  /\ args.percentage.n * args.monthProgress.d
       = 100 * args.percentage.d * args.monthProgress.n
  /\ args.monthProgress.n < args.monthProgress.d
  /\ ret.value = "yellow"

(* C3: on the last day of the month getOverallColor never returns yellow:  *)
(* usage below 100% is green, usage of 100% or more is red.                *)
C3_LastDayNoYellow ==
  Done("getOverallColor") /\ args.monthProgress.n = args.monthProgress.d =>
    /\ ret.value # "yellow"
    /\ args.percentage.n < 100 * args.percentage.d => ret.value = "green"
    /\ args.percentage.n >= 100 * args.percentage.d => ret.value = "red"

C3_Witness ==
  /\ Done("getOverallColor")
  /\ args.monthProgress.n = args.monthProgress.d
  /\ args.percentage.n = 100 * args.percentage.d
  /\ ret.value = "red"


Contains(s, sub) ==
  \E i \in 0..(Len(s) - Len(sub)) : SubSeq(s, i + 1, i + Len(sub)) = sub

(* The text of a box line between its borders.                             *)
Content(line) == LET v == Visible(line) IN SubSeq(v, 3, Len(v) - 2)

IsPlaceholder(line) == Contains(Visible(line), TxtNoUsage)

(* The lines between the "Per-model usage:" block and the closing blank.   *)
TableLines(lines) == SubSeq(lines, FirstRowLineNo, Len(lines) - 3)

RowLines(lines) == SelectSeq(TableLines(lines), LAMBDA l : ~IsPlaceholder(l))

(* The leading code units of a name that survive any truncation.           *)
NameKey(model) == SubSeq(model, 1, Min(Len(model), MODEL_NAME_WIDTH - 1))

(* The category a row was rendered from: the one whose name starts it.     *)
RowEntry(line, modelCounts) ==
  CHOOSE e \in {modelCounts[i] : i \in 1..Len(modelCounts)} :
    SubSeq(Content(line), 1, Len(NameKey(e.model))) = NameKey(e.model)

ThresholdColor(count, limit) ==
  IF 100 * count.n < 75 * count.d * limit THEN "green"
  ELSE IF 100 * count.n < 90 * count.d * limit THEN "yellow"
  ELSE "red"

(* C4: getModelColor is green below 75, yellow from 75 to below 90, red    *)
(* from 90 on, whatever the day; every category row of renderDisplay is    *)
(* colored by that rule applied to count / limit * 100.                    *)
C4_ModelColorThresholds ==
  /\ Done("getModelColor") =>
       ret.value = (IF args.percentage.n < 75 * args.percentage.d THEN "green"
                    ELSE IF args.percentage.n < 90 * args.percentage.d THEN "yellow"
                    ELSE "red")
  /\ Returned("renderDisplay") =>
       LET rows == RowLines(splitLines(ret.value))
       IN  \A i \in 1..Len(rows) :
             StylesIn(rows[i]) \cap Colors
               = {ThresholdColor(RowEntry(rows[i], args.data.modelCounts).count, args.limit)}

(* A row whose color differs from what the pacing rule gives its usage.    *)
C4_Witness ==
  /\ Returned("renderDisplay")
  /\ LET rows == RowLines(splitLines(ret.value))
     IN  \E i \in 1..Len(rows) :
           LET e == RowEntry(rows[i], args.data.modelCounts)
           IN  /\ "yellow" \in StylesIn(rows[i])
               /\ BandOf(e.count.n, e.count.d * args.limit,
                         args.data.currentDay, args.data.daysInMonth) = "red"

(* Direct calls of drawBar: exactly width glyphs, floor(min(used, total) * width *)
(* / total) full blocks, between 0 and width of them, then empty blocks,   *)
(* also when used exceeds total.                                           *)
C5_DrawBarWidth ==
  Done("drawBar") =>
    LET v == Visible(ret.value)
        filled == IF args.used.n >= args.total * args.used.d THEN args.width
                  ELSE (args.used.n * args.width) \div (args.used.d * args.total)
    IN  /\ Len(v) = args.width
        /\ 0 <= filled /\ filled <= args.width
        /\ \A i \in 1..Len(v) : v[i] = (IF i <= filled THEN "FULL" ELSE "EMPTY")
        /\ StylesIn(ret.value) \cap Colors = {args.color}

(* In renderDisplay: the large usage bar holds exactly width - 14      *)
(* cells, all of them full when the total exceeds the limit.               *)
C5_UsageBarInBox ==
  Returned("renderDisplay") =>
    LET bar == SelectSeq(splitLines(ret.value)[UsageBarLineNo],
                         LAMBDA g : g \in {"FULL", "EMPTY"})
        t == args.data.totalUsage
        filled == IF t.n >= args.limit * t.d THEN args.width - 14
                  ELSE (t.n * (args.width - 14)) \div (t.d * args.limit)
    IN  /\ Len(bar) = args.width - 14
        /\ \A i \in 1..Len(bar) : bar[i] = (IF i <= filled THEN "FULL" ELSE "EMPTY")

(* C5: drawBar always yields exactly width glyphs, full blocks then empty  *)
(* ones, as a direct call and as the large usage bar of renderDisplay.     *)
C5_DrawBarExactWidth == C5_DrawBarWidth /\ C5_UsageBarInBox

C5_Witness ==
  /\ Done("drawBar")
  /\ args.used.n > args.total * args.used.d
  /\ args.width > 1
  /\ Visible(ret.value) = [i \in 1..args.width |-> "FULL"]

(* Direct calls of drawMonthProgressBar: width cells with one cursor,       *)
(* min(floor(currentDay * width / totalDays), width - 1) dots, the cursor, *)
(* then dots; on the last day the cursor is the last cell.                 *)
C6_MonthBarCursor ==
  Done("drawMonthProgressBar") =>
    LET v == Visible(ret.value)
        q == (args.currentDay * args.width) \div args.totalDays
        filled == IF q > args.width - 1 THEN args.width - 1 ELSE q
    IN  /\ Len(v) = args.width
        /\ Cardinality({i \in 1..Len(v) : v[i] = "|"}) = 1
        /\ \A i \in 1..Len(v) : v[i] = (IF i = filled + 1 THEN "|" ELSE "DOT")
        /\ args.currentDay = args.totalDays => v[args.width] = "|"

MonthLineNo == 9

(* In renderDisplay: the month line is its label and a bar of          *)
(* width - 14 cells holding one cursor.                                    *)
C6_MonthBarInBox ==
  Returned("renderDisplay") =>
    LET c == Content(splitLines(ret.value)[MonthLineNo])
        bar == SubSeq(c, Len(TxtMonth) + 1, Len(c))
        w == args.width - 14
        q == (args.data.currentDay * w) \div args.data.daysInMonth
        filled == IF q > w - 1 THEN w - 1 ELSE q
    IN  /\ SubSeq(c, 1, Len(TxtMonth)) = TxtMonth
        /\ Len(bar) = w
        /\ \A i \in 1..Len(bar) : bar[i] = (IF i = filled + 1 THEN "|" ELSE "DOT")

(* C6: drawMonthProgressBar always yields exactly width cells and one      *)
(* cursor, as a direct call and as the month line of renderDisplay.        *)
C6_MonthBarOneCursor == C6_MonthBarCursor /\ C6_MonthBarInBox

C6_Witness ==
  /\ Done("drawMonthProgressBar")
  /\ args.currentDay = args.totalDays
  /\ args.width > 1
  /\ Visible(ret.value)[args.width] = "|"

(* The lines of a rendered text that are rows of wide-glyph names, of     *)
(* counts of six digits or more, or of percentages longer than the column. *)
NarrowName(model) == stringWidth(model) = Len(model)

RowFitsColumns(e, limit) ==
  /\ NarrowName(e.model)
  /\ Len(Digits(mathRound(e.count))) <= MODEL_USAGE_COUNT_WIDTH
  /\ Len(formatPercentage(RMulInt(RDivInt(e.count, limit), 100))) <= MODEL_USAGE_PCT_WIDTH

RECURSIVE CellPrefix(_, _)
CellPrefix(str, cells) ==
  IF str = <<>> \/ GlyphWidth(str[1]) > cells THEN <<>>
  ELSE <<str[1]>> \o CellPrefix(Tail(str), cells - GlyphWidth(str[1]))

(* C8 as stated: a name is truncated exactly when its display width        *)
(* exceeds 22 cells, to a prefix of 21 cells and an ellipsis; the rendered *)
(* name never takes more than 22 cells and a truncated name never appears  *)
(* in full; a name of at most 22 cells is unchanged and padded to 22.      *)
C8_TruncateByDisplayWidth ==
  Returned("renderDisplay") =>
    LET rows == RowLines(splitLines(ret.value))
    IN  \A i \in 1..Len(rows) :
          LET e == RowEntry(rows[i], args.data.modelCounts)
              w == stringWidth(e.model)
              cell == IF w > MODEL_NAME_WIDTH
                        THEN CellPrefix(e.model, MODEL_NAME_WIDTH - 1) \o <<"ELLIPSIS">>
                        ELSE e.model \o Repeat(" ", MODEL_NAME_WIDTH - w)
              c == Content(rows[i])
          IN  /\ SubSeq(c, 1, Len(cell)) = cell
              /\ SubSeq(c, Len(cell) + 1, Len(cell) + MODEL_USAGE_COUNT_WIDTH)
                   = padStart(Digits(mathRound(e.count)), MODEL_USAGE_COUNT_WIDTH)
              /\ w > MODEL_NAME_WIDTH => ~Contains(Visible(ret.value), e.model)

(* C9: the category rows are in non-increasing order of usage, whatever    *)
(* the insertion order of the map.                                         *)
C9_RowsSortedDesc ==
  Returned("renderDisplay") =>
    LET rows == RowLines(splitLines(ret.value))
        countOf(i) == RowEntry(rows[i], args.data.modelCounts).count
    IN  \A i, j \in 1..Len(rows) : i < j => ~RLt(countOf(i), countOf(j))

C9_Witness ==
  /\ Returned("renderDisplay")
  /\ Len(args.data.modelCounts) = 2
  /\ RLt(Rat(0, 1), args.data.modelCounts[1].count)
  /\ RLt(args.data.modelCounts[1].count, args.data.modelCounts[2].count)
  /\ LET rows == RowLines(splitLines(ret.value))
     IN  /\ Len(rows) = 2
         /\ RowEntry(rows[1], args.data.modelCounts) = args.data.modelCounts[2]

(* C10: a category has a row exactly when its usage is not zero, whatever  *)
(* the total; the placeholder line appears exactly when the map is empty   *)
(* or all zero, and never together with a row.                             *)
C10_RowsIffNonZero ==
  Returned("renderDisplay") =>
    LET lines == splitLines(ret.value)
        counts == args.data.modelCounts
        shown(e) == \E i \in 1..Len(lines) : Contains(Visible(lines[i]), NameKey(e.model))
        placeholder == \E i \in 1..Len(lines) : IsPlaceholder(lines[i])
    IN  /\ \A k \in 1..Len(counts) : shown(counts[k]) <=> counts[k].count.n # 0
        /\ placeholder <=> \A k \in 1..Len(counts) : counts[k].count.n = 0
        /\ Len(RowLines(lines)) = Cardinality({k \in 1..Len(counts) : counts[k].count.n # 0})
        /\ placeholder => Len(RowLines(lines)) = 0

C10_Witness ==
  /\ Returned("renderDisplay")
  /\ RLt(Rat(0, 1), args.data.totalUsage)
  /\ Len(args.data.modelCounts) = 2
  /\ args.data.modelCounts[1].count.n = 0
  /\ args.data.modelCounts[2].count.n # 0
  /\ Len(RowLines(splitLines(ret.value))) = 1

----------------------------------------------------------------------------
(* Reset countdown properties                                              *)

ResetLineNo == 11

RECURSIVE StripLeft(_)
StripLeft(str) ==
  IF str # <<>> /\ str[1] = " " THEN StripLeft(Tail(str)) ELSE str

(* The visible text of the reset line that follows the label and the gap.  *)
CountdownOf(text, data) ==
  LET c == Content(splitLines(text)[ResetLineNo])
      label == TxtResets \o data.nextResetDate.localMonthName \o TxtDayOne
                 \o Digits(data.nextResetDate.localYear) \o TxtAtUtc
  IN  StripLeft(SubSeq(c, Len(label) + 1, Len(c)))

DiffMs(a) == a.nextResetDate.time - a.now.time

(* C11 as stated: the reset line of renderDisplay carries no countdown     *)
(* exactly when the width is below 60, the reset has passed, or the reset  *)
(* is more than 7 days after now; a reset exactly 7 days ahead at width 60 *)
(* or more would carry one.                                                *)
C11_AsStated ==
  Returned("renderDisplay") =>
    LET d == DiffMs(args.data)
    IN  (CountdownOf(ret.value, args.data) = <<>>)
          <=> (args.width < 60 \/ d <= 0 \/ d > SEVEN_DAYS_MS)

(* C11 (amended): the reset line carries no countdown exactly when the     *)
(* width is below 60, the reset instant is not after now, or the reset is  *)
(* 7 days or more after now; at width 60 or more with the reset less than  *)
(* 7 days ahead the countdown is present.                                  *)
C11_CountdownPresence ==
  Returned("renderDisplay") =>
    LET d == DiffMs(args.data)
    IN  (CountdownOf(ret.value, args.data) = <<>>)
          <=> (args.width < 60 \/ d <= 0 \/ d >= SEVEN_DAYS_MS)

C11_Witness ==
  /\ Returned("renderDisplay")
  /\ args.width = 60
  /\ DiffMs(args.data) = SEVEN_DAYS_MS - 1
  /\ CountdownOf(ret.value, args.data) = TxtIn \o <<"6">> \o TxtDays

HOUR_MS == 3600000
DAY_MS == 86400000
MINUTE_MS == 60000

EndsWith(str, suffix) ==
  Len(str) >= Len(suffix) /\ SubSeq(str, Len(str) - Len(suffix) + 1, Len(str)) = suffix

(* The band a suffix belongs to, read from its shape alone.                *)
FormOf(suffix) ==
  IF EndsWith(suffix, TxtDay) \/ EndsWith(suffix, TxtDays) THEN "days"
  ELSE IF EndsWith(suffix, <<"h">>) THEN "hours"
  ELSE IF Contains(suffix, <<"h", " ">>) /\ EndsWith(suffix, TxtMin) THEN "hoursMinutes"
  ELSE IF EndsWith(suffix, TxtMin) THEN "minutes"
  ELSE "none"

(* The suffix the delay d calls for, band by band.                         *)
SuffixFor(d) ==
  LET N == d \div DAY_MS
      H == d \div HOUR_MS
      M == (d \div MINUTE_MS) % 60
  IN  IF d >= 24 * HOUR_MS
        THEN [form |-> "days",
              text |-> TxtIn \o Digits(N) \o (IF N = 1 THEN TxtDay ELSE TxtDays)]
      ELSE IF d >= 12 * HOUR_MS
        THEN [form |-> "hours", text |-> TxtIn \o Digits(H) \o <<"h">>]
      ELSE IF d >= HOUR_MS
        THEN [form |-> "hoursMinutes",
              text |-> TxtIn \o Digits(H) \o <<"h", " ">> \o Digits(M) \o TxtMin]
      ELSE [form |-> "minutes", text |-> TxtIn \o Digits(M) \o TxtMin]

(* C12: when formatTimeUntilReset returns a suffix for a delay d, it is    *)
(* 'in N day(s)' with N = floor(d / 24h) and the singular only for N = 1   *)
(* when d >= 24h, 'in Hh' when 12h <= d < 24h, 'in Hh Mmin' with           *)
(* M = floor(d / 1min) mod 60 when 1h <= d < 12h, and 'in Mmin' when       *)
(* d < 1h; the shape of the suffix tells the band, so the four bands are   *)
(* exhaustive and exclusive.                                               *)
C12_CountdownBands ==
  Returned("formatTimeUntilReset") /\ ret.value # <<>> =>
    LET d == args.resetDate.time - args.now.time
    IN  /\ ret.value = SuffixFor(d).text
        /\ FormOf(ret.value) = SuffixFor(d).form
        /\ EndsWith(ret.value, TxtDay) <=> d \div DAY_MS = 1

C12_Witness ==
  /\ Returned("formatTimeUntilReset")
  /\ args.resetDate.time - args.now.time = 2 * DAY_MS - 1
  /\ ret.value = TxtIn \o <<"1">> \o TxtDay

(* C13 as stated: at width 60 or more with the reset less than 24 hours    *)
(* away and not passed, the countdown on the reset line is 'in Hh Mmin'.   *)
C13_AsStated ==
  Returned("renderDisplay") /\ args.width >= 60
    /\ DiffMs(args.data) > 0 /\ DiffMs(args.data) < DAY_MS =>
      LET d == DiffMs(args.data)
      IN  CountdownOf(ret.value, args.data)
            = TxtIn \o Digits(d \div HOUR_MS) \o <<"h", " ">>
                \o Digits((d \div MINUTE_MS) % 60) \o TxtMin

(* C13 (amended): at width 60 or more with the reset not passed, the       *)
(* countdown on the reset line is 'in Hh Mmin' when the reset is at least  *)
(* 1 hour and less than 12 hours away, 'in Hh' from 12 hours to less than  *)
(* 24 hours, and 'in Mmin' under 1 hour, with H = floor(d / 1h) and        *)
(* M = floor(d / 1min) mod 60.                                             *)
C13_CountdownUnderADay ==
  Returned("renderDisplay") /\ args.width >= 60
    /\ DiffMs(args.data) > 0 /\ DiffMs(args.data) < DAY_MS =>
      LET d == DiffMs(args.data)
          H == Digits(d \div HOUR_MS)
          M == Digits((d \div MINUTE_MS) % 60)
          c == CountdownOf(ret.value, args.data)
      IN  /\ HOUR_MS <= d /\ d < 12 * HOUR_MS => c = TxtIn \o H \o <<"h", " ">> \o M \o TxtMin
          /\ 12 * HOUR_MS <= d => c = TxtIn \o H \o <<"h">>
          /\ d < HOUR_MS => c = TxtIn \o M \o TxtMin

C13_Witness ==
  /\ Returned("renderDisplay")
  /\ args.width = 60
  /\ DiffMs(args.data) = 18420000
  /\ CountdownOf(ret.value, args.data) = <<"i", "n", " ", "5", "h", " ", "7", "m", "i", "n">>

----------------------------------------------------------------------------
(* Usage fetcher properties                                                *)

REq(x, y) == x.n * y.d = y.n * x.d

RLe(x, y) == x.n * y.d <= y.n * x.d

RSub(x, y) == RAdd(x, Rat(-y.n, y.d))

RAbs(x) == IF x.n < 0 THEN Rat(-x.n, x.d) ELSE x

(* The usage items a resolved payload carries.                             *)
ItemsOf(fetcher) ==
  IF fetcher.value.usageItems.type = "array" THEN fetcher.value.usageItems.items ELSE <<>>

KeyOf(item) == IF item.model.type = "undefined" THEN TxtUnknown ELSE item.model.str

RECURSIVE SumQuantities(_)
SumQuantities(items) ==
  IF items = <<>> THEN Rat(0, 1)
  ELSE RAdd(Head(items).grossQuantity.num, SumQuantities(Tail(items)))

RECURSIVE SumCounts(_)
SumCounts(counts) ==
  IF counts = <<>> THEN Rat(0, 1) ELSE RAdd(Head(counts).count, SumCounts(Tail(counts)))

(* x is s rounded to two decimals, halves going up.                        *)
IsRoundedTo2(x, s) ==
  \E k \in -1..(100 * MaxItems * 10 + 1) :
    /\ REq(x, Rat(k, 100))
    /\ 2 * k * s.d <= 200 * s.n + s.d
    /\ 200 * s.n + s.d < 2 * (k + 1) * s.d

(* C14: in the snapshot of fetchUsage, totalUsage is the sum of all item   *)
(* quantities rounded to 2 decimals; there is one category per distinct    *)
(* key, an item without a model having the key 'Unknown', and its count is *)
(* the sum of the quantities of its items; totalUsage is within 0.005 of   *)
(* the sum of the category counts; a missing or empty item list gives      *)
(* totalUsage 0 and an empty map.                                          *)
C14_SnapshotTotals ==
  Returned("fetchUsage") /\ ret.value.tag = "UsageData" =>
    LET items == ItemsOf(args.fetcher)
        counts == ret.value.modelCounts
    IN  /\ IsRoundedTo2(ret.value.totalUsage, SumQuantities(items))
        /\ {counts[i].model : i \in 1..Len(counts)} = {KeyOf(items[i]) : i \in 1..Len(items)}
        /\ \A i, j \in 1..Len(counts) : counts[i].model = counts[j].model => i = j
        /\ \A i \in 1..Len(counts) :
             REq(counts[i].count,
                 SumQuantities(SelectSeq(items, LAMBDA it : KeyOf(it) = counts[i].model)))
        /\ RLe(RAbs(RSub(ret.value.totalUsage, SumCounts(counts))), Rat(5, 1000))
        /\ items = <<>> => ret.value.totalUsage = Rat(0, 1) /\ counts = <<>>

C14_Witness ==
  /\ Returned("fetchUsage")
  /\ ret.value.tag = "UsageData"
  /\ Len(ItemsOf(args.fetcher)) = 3
  /\ \A i \in 1..3 : ItemsOf(args.fetcher)[i].grossQuantity.num = Rat(1333, 1000)
  /\ ItemsOf(args.fetcher)[2].model.type = "undefined"
  /\ ret.value.totalUsage = Rat(4, 1)
  /\ ret.value.modelCounts =
       <<[model |-> NameOf(1), count |-> Rat(1333, 1000)],
         [model |-> TxtUnknown, count |-> Rat(1333, 500)]>>

(* The payload shapes the two requests expect.                             *)
UsageShaped(payload) ==
  /\ payload.type = "object"
  /\ payload.usageItems.type \in {"undefined", "array"}
  /\ \A i \in 1..Len(payload.usageItems.items) :
       /\ payload.usageItems.items[i].grossQuantity.type = "number"
       /\ payload.usageItems.items[i].model.type # "null"
       /\ payload.usageItems.items[i].model.type # "number"

LoginShaped(payload) == payload.type = "object" /\ payload.login.type = "string"

ExpectedTag(fetcher, shaped, success) ==
  IF fetcher.outcome = "reject" THEN "FetchError"
  ELSE IF ~shaped THEN "ParseError"
  ELSE success

(* C15: fetchUsage and fetchUsername always return: a FetchError value     *)
(* when the fetcher fails, a ParseError value when the fetched payload     *)
(* does not have the expected shape, and the snapshot or the login         *)
(* otherwise; a failure of one kind is never reported as the other.        *)
C15_ErrorsAsValues ==
  /\ Done("fetchUsage") =>
       /\ ret.kind = "return"
       /\ ret.value.tag = ExpectedTag(args.fetcher, UsageShaped(args.fetcher.value), "UsageData")
       /\ ret.value.tag = "FetchError" => ret.value.reason = args.fetcher.rejection.text
       /\ ret.value.tag = "UsageData" => ret.value.username = args.username
  /\ Done("fetchUsername") =>
       /\ ret.kind = "return"
       /\ ret.value.tag = ExpectedTag(args.fetcher, LoginShaped(args.fetcher.value), "string")
       /\ ret.value.tag = "FetchError" => ret.value.reason = args.fetcher.rejection.text
       /\ ret.value.tag = "string" => ret.value.str = args.fetcher.value.login.str

C15_Witness ==
  /\ Returned("fetchUsage")
  /\ args.fetcher.outcome = "resolve"
  /\ Len(ItemsOf(args.fetcher)) = 2
  /\ ItemsOf(args.fetcher)[1].grossQuantity.type = "number"
  /\ ItemsOf(args.fetcher)[2].grossQuantity.type = "string"
  /\ ret.value.tag = "ParseError"

(* C16: for every now, the snapshot's nextResetDate is 00:00 UTC of day 1  *)
(* of the month following now's month, in now's year for January to        *)
(* November and in January of the next year for December; now's month and  *)
(* year are the ones its local getters report.                             *)
C16_NextResetDate ==
  Returned("fetchUsage") /\ ret.value.tag = "UsageData" =>
    LET local == LocalOf(args.now, args.tz)
        reset == ret.value.nextResetDate
    IN  /\ reset.day = 1 /\ reset.hour = 0
        /\ local.month < 11 => reset.month = local.month + 1 /\ reset.year = local.year
        /\ local.month = 11 => reset.month = 0 /\ reset.year = local.year + 1

C16_Witness ==
  /\ Returned("fetchUsage")
  /\ args.now = [year |-> 2025, month |-> 11, day |-> 31, hour |-> 22]
  /\ args.tz = 0
  /\ ret.value.tag = "UsageData"
  /\ ret.value.nextResetDate = [year |-> 2026, month |-> 0, day |-> 1, hour |-> 0]

----------------------------------------------------------------------------
(* Configuration resolver properties                                       *)

(* A text that names a known plan, whatever its case.                      *)
NamesKnownPlan(str) == toLowerCase(str) \in PlanKeys

(* A text that is a positive integer in decimal, white space around it     *)
(* aside.                                                                  *)
IsPositiveInteger(str) ==
  LET t == trim(str)
  IN  /\ t # <<>>
      /\ \A i \in 1..Len(t) : IsDigit(t[i])
      /\ digitsValue(t) > 0

PlanLimit(plan) ==
  CASE plan = TxtFree -> 50
    [] plan = TxtPro -> 300
    [] plan = TxtProPlus -> 1500
    [] plan = TxtBusiness -> 300
    [] plan = TxtEnterprise -> 1000

(* C17 as stated: resolvePlan returns the CLI plan when one is given,      *)
(* otherwise the lower-cased GH_COPILOT_PLAN when it names a known plan,   *)
(* otherwise the trimmed, lower-cased gh config value when it names a      *)
(* known plan, otherwise 'pro'; a failing config read is skipped.          *)
C17_AsStated ==
  Done("resolvePlan") =>
    LET envPlan == args.env.GH_COPILOT_PLAN
        config == args.shellExec
    IN  /\ ret.kind = "return"
        /\ ret.value =
             IF args.cliPlan.defined THEN args.cliPlan.str
             ELSE IF envPlan.defined /\ NamesKnownPlan(envPlan.str) THEN toLowerCase(envPlan.str)
             ELSE IF config.outcome = "resolve" /\ NamesKnownPlan(trim(config.text))
               THEN toLowerCase(trim(config.text))
             ELSE TxtPro

(* C18 as stated: resolveLimit returns the CLI limit when one is given,    *)
(* otherwise GH_COPILOT_LIMIT when it is a positive integer, otherwise the *)
(* gh config value when it is a positive integer, otherwise the default    *)
(* limit of the plan; the result is always a positive integer.             *)
C18_AsStated ==
  Done("resolveLimit") =>
    LET envLimit == args.env.GH_COPILOT_LIMIT
        config == args.shellExec
    IN  /\ ret.kind = "return"
        /\ ret.value.type = "number" /\ ret.value.num > 0
        /\ ret.value.num =
             IF args.cliLimit.defined THEN args.cliLimit.num
             ELSE IF envLimit.defined /\ IsPositiveInteger(envLimit.str)
               THEN digitsValue(trim(envLimit.str))
             ELSE IF config.outcome = "resolve" /\ IsPositiveInteger(config.text)
               THEN digitsValue(trim(config.text))
             ELSE PlanLimit(args.plan)

(* C19: the gh config reader is invoked only by resolvePlan and            *)
(* resolveLimit, only when no CLI value is given and the environment       *)
(* variable holds no valid value, and at most once in a call.              *)
C19_ShortCircuit ==
  [][shellLog' # shellLog =>
       LET callee == IF fn = "main" THEN pc ELSE fn
           cliPlan == IF fn = "main" THEN locals.cliResult.plan ELSE args.cliPlan
           cliLimit == IF fn = "main" THEN locals.cliResult.limit ELSE args.cliLimit
       IN  /\ Len(shellLog') = Len(shellLog) + 1
           /\ fn # "main" => shellLog = <<>> /\ pc = "call"
           /\ callee \in {"resolvePlan", "resolveLimit"}
           /\ callee = "resolvePlan" =>
                /\ ~cliPlan.defined
                /\ ~(args.env.GH_COPILOT_PLAN.defined /\ NamesKnownPlan(args.env.GH_COPILOT_PLAN.str))
                /\ shellLog' = Append(shellLog, GhConfigCommand("copilot-usage.plan"))
           /\ callee = "resolveLimit" =>
                /\ ~cliLimit.defined
                /\ ~(args.env.GH_COPILOT_LIMIT.defined /\ IsPositiveInteger(args.env.GH_COPILOT_LIMIT.str))
                /\ shellLog' = Append(shellLog, GhConfigCommand("copilot-usage.limit"))]_vars

C19_Witness ==
  /\ Returned("resolvePlan")
  /\ ~args.cliPlan.defined
  /\ args.env.GH_COPILOT_PLAN = Defined(<<"E", "N", "T", "E", "R", "P", "R", "I", "S", "E">>)
  /\ args.shellExec.outcome = "resolve"
  /\ shellLog = <<>>
  /\ ret.value = TxtEnterprise

----------------------------------------------------------------------------
(* Argument parser properties                                              *)

(* The arguments after the runtime and the script path.                    *)
UserArgs(argv) == SubSeq(argv, 3, Len(argv))

FlagPlanLong == <<"-", "-", "p", "l", "a", "n">>
FlagPlanShort == <<"-", "p">>
FlagLimitLong == <<"-", "-", "l", "i", "m", "i", "t">>
FlagLimitShort == <<"-", "l">>
KnownLongFlags == {FlagPlanLong, FlagLimitLong, <<"-", "-", "h", "e", "l", "p">>, <<"-", "-", "v", "e", "r", "s", "i", "o", "n">>}

(* A long flag, with or without '=value', whose name is not an option.     *)
IsUnknownFlag(arg) ==
  /\ Len(arg) > 2 /\ startsWith(arg, <<"-", "-">>)
  /\ \A f \in KnownLongFlags : arg # f /\ ~startsWith(arg, f \o <<"=">>)

(* The values handed to a string flag: the next argument, the text after   *)
(* '=', or the text glued to the short form.                               *)
ValuesGiven(a, long, short) ==
  {a[i + 1] : i \in {j \in 1..(Len(a) - 1) : a[j] \in {long, short}}}
    \cup {slice(a[i], Len(long) + 1) : i \in {j \in 1..Len(a) : startsWith(a[j], long \o <<"=">>)}}
    \cup {slice(a[i], 2) : i \in {j \in 1..Len(a) : startsWith(a[j], short) /\ Len(a[j]) > 2}}

(* C20 as stated: an unknown flag yields UnknownFlagError; a --plan/-p     *)
(* value that is not a known plan yields InvalidPlanError and a --limit/-l *)
(* value that is not a positive integer yields InvalidLimitError, when     *)
(* that is the only defect of the list; a run, help or version result is   *)
(* returned only when no argument is unknown or malformed.                 *)
C20_AsStated ==
  Done("parseCliArgs") =>
    LET a == UserArgs(args.argv)
        unknownFlag == \E i \in 1..Len(a) : IsUnknownFlag(a[i])
        badPlan == \E v \in ValuesGiven(a, FlagPlanLong, FlagPlanShort) : ~NamesKnownPlan(v)
        badLimit == \E v \in ValuesGiven(a, FlagLimitLong, FlagLimitShort) : ~IsPositiveInteger(v)
    IN  /\ ret.kind = "return"
        /\ unknownFlag => ret.value.tag = "UnknownFlagError"
        /\ badPlan /\ ~unknownFlag /\ ~badLimit => ret.value.tag = "InvalidPlanError"
        /\ badLimit /\ ~unknownFlag /\ ~badPlan => ret.value.tag = "InvalidLimitError"
        /\ ret.value.tag = "CliResult" => ~unknownFlag /\ ~badPlan /\ ~badLimit

(* The run that C20 excludes: a fractional limit accepted as its integer   *)
(* part.                                                                   *)
C20_FractionalLimitRuns ==
  /\ Returned("parseCliArgs")
  /\ UserArgs(args.argv) = <<FlagLimitLong, <<"1", "2", ".", "5">>>>
  /\ ret.value.tag = "CliResult" /\ ret.value.action = "run"
  /\ ret.value.limit = [defined |-> TRUE, num |-> 12]

----------------------------------------------------------------------------
(* Runs of main                                                            *)

MainOrder ==
  <<"parseCliArgs", "resolvePlan", "resolveLimit", "fetchUsername", "fetchUsage",
    "renderDisplay">>

IsPrefix(a, b) == Len(a) <= Len(b) /\ a = SubSeq(b, 1, Len(a))

ReportWritten == \E i \in 1..Len(stdout) : stdout[i].what = "report"

(* What the three fallible steps of a run return for its inputs.           *)
MainCli == parseCliArgs(args.argv)
MainUsername == fetchUsername(args.fetcher.user)
MainUsage == fetchUsage(MainUsername.str, args.now, args.tz, args.fetcher.usage)

(* C21: in every run of main the steps are taken in the order parse,       *)
(* resolve, identity fetch, usage fetch, render; the report is on standard *)
(* output only if parsing and both fetches succeeded and every step ran;   *)
(* the first CLI error, FetchError or ParseError ends the process with     *)
(* exactly one 'Error: ...' line on the error stream, exit code 1, nothing *)
(* on standard output and no later step; --help and --version print one    *)
(* text to standard output and exit 0 with no config read and no fetch.    *)
C21_MainOutcomes ==
  fn = "main" =>
    /\ IsPrefix(callLog, MainOrder)
    /\ ReportWritten =>
         /\ MainCli.tag = "CliResult" /\ MainCli.action = "run"
         /\ MainUsername.tag = "string"
         /\ MainUsage.tag = "UsageData"
         /\ callLog = MainOrder
         /\ stderr = <<>>
    /\ (pc # "call" /\ MainCli.tag # "CliResult") =>
         /\ pc = "exit" /\ exitCode = Exit(1)
         /\ stderr = <<ErrorLine(MainCli)>> /\ stdout = <<>>
         /\ callLog = <<"parseCliArgs">> /\ shellLog = <<>>
    /\ (pc # "call" /\ MainCli.tag = "CliResult" /\ MainCli.action \in {"help", "version"}) =>
         /\ pc = "exit" /\ exitCode = Exit(0)
         /\ stdout = <<Printed(MainCli.action, <<>>)>> /\ stderr = <<>>
         /\ callLog = <<"parseCliArgs">> /\ shellLog = <<>>
    /\ (Len(callLog) >= 4 /\ MainUsername.tag # "string") =>
         /\ pc = "exit" /\ exitCode = Exit(1)
         /\ MainUsername.tag \in {"FetchError", "ParseError"}
         /\ stderr = <<ErrorLine(MainUsername)>> /\ stdout = <<>>
         /\ callLog = SubSeq(MainOrder, 1, 4)
    /\ (Len(callLog) >= 5 /\ MainUsage.tag # "UsageData") =>
         /\ pc = "exit" /\ exitCode = Exit(1)
         /\ MainUsage.tag \in {"FetchError", "ParseError"}
         /\ stderr = <<ErrorLine(MainUsage)>> /\ stdout = <<>>
         /\ callLog = SubSeq(MainOrder, 1, 5)

(* A run that the usage fetch stopped, after a successful identity fetch.  *)
C21_Witness ==
  /\ fn = "main" /\ pc = "exit"
  /\ MainUsername.tag = "string"
  /\ MainUsage.tag = "ParseError"
  /\ stderr = <<ErrorLine(MainUsage)>>
  /\ exitCode = Exit(1)

C21_ReportWitness == fn = "main" /\ pc = "exit" /\ ReportWritten /\ exitCode = Exit(0)

C21_HelpWitness == fn = "main" /\ pc = "exit" /\ stdout = <<Printed("help", <<>>)>>

----------------------------------------------------------------------------
(* Overall rule against category rule                                      *)

Severity(color) == CASE color = "green" -> 0 [] color = "yellow" -> 1 [] OTHER -> 2

FirstHalf(monthProgress) == RLe(monthProgress, Rat(1, 2))

(* C22 as stated: in the first half of the month getOverallColor is never  *)
(* more severe than getModelColor of the same percentage.                  *)
C22_AsStated ==
  (Done("getOverallColor") /\ FirstHalf(args.monthProgress)) =>
    Severity(ret.value) <= Severity(getModelColor(args.percentage))

(* C22: in the first half of the month getOverallColor is never less       *)
(* severe than getModelColor of the same percentage: the overall reading   *)
(* is red from (1 + monthProgress) / 2 <= 75% of the limit on, and it is   *)
(* yellow or red wherever the category rule is.                            *)
C22_OverallAtLeastAsSevere ==
  (Done("getOverallColor") /\ FirstHalf(args.monthProgress)) =>
    /\ Severity(ret.value) >= Severity(getModelColor(args.percentage))
    /\ ~RLt(args.percentage, Rat(75, 1)) => ret.value = "red"

(* Day 1 of 30 at 90% or more of the limit: both rules read red.           *)
C22_Witness ==
  /\ Done("getOverallColor")
  /\ args.monthProgress = Rat(1, 30)
  /\ getModelColor(args.percentage) = "red"
  /\ ret.value = "red"

(* Day 1 of 30 between 52% and 75%: overall red, category green.           *)
C22_OverallStricter ==
  /\ Done("getOverallColor")
  /\ args.monthProgress = Rat(1, 30)
  /\ getModelColor(args.percentage) = "green"
  /\ ret.value = "red"

----------------------------------------------------------------------------
(* Width handed to renderDisplay                                           *)

RenderCalled == fn = "main" /\ Len(callLog) = Len(MainOrder)

(* C23 as stated: main never calls renderDisplay with a width whose        *)
(* per-category bar width (width - 40) or large bar width (width - 14) is  *)
(* not positive, whatever the number of columns of the terminal.           *)
C23_AsStated ==
  RenderCalled =>
    /\ widthOf(args.columns) - 40 > 0
    /\ widthOf(args.columns) - 14 > 0

(* What main does enforce: the width is the number of columns, 80 at most, *)
(* and 80 without a terminal.                                              *)
C23_WidthIsCappedColumns ==
  RenderCalled =>
    /\ widthOf(args.columns) <= 80
    /\ args.columns.defined /\ args.columns.num <= 80 => widthOf(args.columns) = args.columns.num

(* A 30-column terminal: renderDisplay is called with width 30 and raises. *)
C23_NarrowTerminal ==
  /\ RenderCalled
  /\ args.columns = Columns(30)
  /\ stderr = <<UncaughtReport(RangeError)>>
  /\ exitCode = Exit(1)

----------------------------------------------------------------------------
(* Failing paths of renderDisplay                                          *)

ValidatedSnapshot(data) ==
  /\ 1 <= data.currentDay /\ data.currentDay <= data.daysInMonth
  /\ ~RLt(data.totalUsage, Rat(0, 1))
  /\ \A i \in 1..Len(data.modelCounts) : ~RLt(data.modelCounts[i].count, Rat(0, 1))

PositiveBarWidths(width) == width - 40 > 0 /\ width - 14 > 0

(* C24 as stated: for a snapshot with 1 <= currentDay <= daysInMonth and   *)
(* non-negative counts, any plan label and username, a positive integer    *)
(* limit and a width whose bar widths are positive, renderDisplay returns  *)
(* a string and raises nothing.                                            *)
C24_AsStated ==
  (Done("renderDisplay") /\ ValidatedSnapshot(args.data) /\ args.limit >= 1
     /\ PositiveBarWidths(args.width)) =>
    ret.kind = "return"

(* The 50-cell title of the enterprise plan in a 50-column terminal.       *)
C24_TitleTooWide ==
  /\ Done("renderDisplay")
  /\ args.plan = TxtEnterprise /\ args.width = 50
  /\ args.data.username = TxtOctocat
  /\ ret = Throw(RangeError)

----------------------------------------------------------------------------
(* Percentage readouts                                                     *)

(* The number of digits a readout shows before its decimal point.          *)
WholeDigits(text) == (CHOOSE i \in 1..Len(text) : text[i] = ".") - 1

(* A readout of the form P.F followed by the suffix.                       *)
OneDecimalThen(text, suffix) ==
  LET w == WholeDigits(text)
  IN  /\ \E i \in 1..Len(text) : text[i] = "."
      /\ w >= 1
      /\ SubSeq(text, w + 3, Len(text)) = suffix

(* C25 as stated: a percentage below 1000 reads 'P.F%', one of 1000 or     *)
(* more reads its thousandth as 'P.Fk%', 999 reads '999.0%' and 1000 reads *)
(* '1.0k%', and no readout shows a number of 1000 or more, that is more    *)
(* than three digits before the decimal point.                             *)
C25_AsStated ==
  Done("formatPercentage") =>
    /\ RLt(args.pct, Rat(1000, 1)) => OneDecimalThen(ret.value, <<"%">>)
    /\ ~RLt(args.pct, Rat(1000, 1)) => OneDecimalThen(ret.value, <<"k", "%">>)
    /\ args.pct = Rat(999, 1) => ret.value = <<"9", "9", "9", ".", "0", "%">>
    /\ args.pct = Rat(1000, 1) => ret.value = <<"1", ".", "0", "k", "%">>
    /\ WholeDigits(ret.value) <= 3

(* What holds of every readout: the form and the suffix.                   *)
C25_FormAndSuffix ==
  Done("formatPercentage") =>
    /\ RLt(args.pct, Rat(1000, 1)) => OneDecimalThen(ret.value, <<"%">>)
    /\ ~RLt(args.pct, Rat(1000, 1)) => OneDecimalThen(ret.value, <<"k", "%">>)
    /\ args.pct = Rat(999, 1) => ret.value = <<"9", "9", "9", ".", "0", "%">>
    /\ args.pct = Rat(1000, 1) => ret.value = <<"1", ".", "0", "k", "%">>

(* 999.96% reads '1000.0%'.                                                *)
C25_RoundsUpTo1000 ==
  /\ Done("formatPercentage")
  /\ args.pct = Rat(99996, 100)
  /\ ret.value = <<"1", "0", "0", "0", ".", "0", "%">>

----------------------------------------------------------------------------
(* Distance from now to the reset                                          *)

RECURSIVE DaysBeforeYear(_)
DaysBeforeYear(y) ==
  IF y <= 2024 THEN 0
  ELSE DaysBeforeYear(y - 1) + (IF IsLeapYear(y - 1) THEN 366 ELSE 365)

RECURSIVE DaysBeforeMonth(_, _)
DaysBeforeMonth(y, m) ==
  IF m = 0 THEN 0 ELSE DaysBeforeMonth(y, m - 1) + DaysInMonthOf(y, m - 1)

(* Hours from 2024-01-01T00:00Z to a Date.                                 *)
HoursOf(date) ==
  24 * (DaysBeforeYear(date.year) + DaysBeforeMonth(date.year, date.month) + date.day - 1)
    + date.hour

HoursToReset == HoursOf(ret.value.nextResetDate) - HoursOf(args.now)

(* C26 as stated: for every now and every time-zone offset of the process, *)
(* the snapshot's nextResetDate is strictly later than now and at most 31  *)
(* days later.                                                             *)
C26_AsStated ==
  Returned("fetchUsage") /\ ret.value.tag = "UsageData" =>
    HoursToReset > 0 /\ HoursToReset <= 31 * 24

(* In a process whose zone is UTC the reset is ahead, within 31 days.      *)
C26_InUtc ==
  Returned("fetchUsage") /\ ret.value.tag = "UsageData" /\ args.tz = 0 =>
    HoursToReset > 0 /\ HoursToReset <= 31 * 24

(* 2025-07-01T04:00Z read at UTC-5 is June 30: the reset is July 1 00:00Z, *)
(* four hours before now.                                                  *)
C26_ResetAlreadyPassed ==
  /\ Returned("fetchUsage")
  /\ args.now = [year |-> 2025, month |-> 6, day |-> 1, hour |-> 4]
  /\ args.tz = -5
  /\ ret.value.tag = "UsageData"
  /\ ret.value.nextResetDate = [year |-> 2025, month |-> 6, day |-> 1, hour |-> 0]
  /\ HoursToReset = -4

(* 2025-06-30T12:00Z read at UTC+14 is July 1: the reset is August 1.      *)
C26_ResetSkipsAMonth ==
  /\ Returned("fetchUsage")
  /\ args.now = [year |-> 2025, month |-> 5, day |-> 30, hour |-> 12]
  /\ args.tz = 14
  /\ ret.value.tag = "UsageData"
  /\ ret.value.nextResetDate = [year |-> 2025, month |-> 7, day |-> 1, hour |-> 0]
  /\ HoursToReset > 31 * 24

----------------------------------------------------------------------------
(* Width of the category rows                                              *)

(* C27 as stated: with a terminal width of at least 41, every row of a     *)
(* category of usage > 0 and ASCII name, for every limit >= 1, has display *)
(* width exactly the terminal width.                                       *)
C27_AsStated ==
  Returned("renderDisplay") /\ args.width >= 41 /\ args.limit >= 1 =>
    LET rows == RowLines(splitLines(ret.value))
    IN  \A i \in 1..Len(rows) :
          LET e == RowEntry(rows[i], args.data.modelCounts)
          IN  NarrowName(e.model) /\ RLt(Rat(0, 1), e.count) =>
                stringWidth(rows[i]) = args.width

(* The rows that are exactly as wide as the terminal: those whose count    *)
(* rounds to at most five digits and whose percentage reads in at most     *)
(* seven characters; the others are wider by the characters in excess.     *)
C27_RowsThatFit ==
  Returned("renderDisplay") /\ args.width >= 41 /\ args.limit >= 1 =>
    LET rows == RowLines(splitLines(ret.value))
    IN  \A i \in 1..Len(rows) :
          LET e == RowEntry(rows[i], args.data.modelCounts)
              pct == formatPercentage(RMulInt(RDivInt(e.count, args.limit), 100))
              excess == Max(0, Len(Digits(mathRound(e.count))) - MODEL_USAGE_COUNT_WIDTH)
                          + Max(0, Len(pct) - MODEL_USAGE_PCT_WIDTH)
          IN  NarrowName(e.model) /\ Len(e.model) <= MODEL_NAME_WIDTH =>
                stringWidth(rows[i]) = args.width + Max(0, excess)

(* 100000 requests of one category: a six-digit count in a five-cell       *)
(* column, and a row of 81 cells in an 80-column box.                      *)
C27_SixDigitCount ==
  /\ Returned("renderDisplay")
  /\ args.width = 80 /\ args.limit = 300
  /\ args.data.modelCounts = <<[model |-> NameOf(1), count |-> Rat(100000, 1)]>>
  /\ stringWidth(RowLines(splitLines(ret.value))[1]) = 81

----------------------------------------------------------------------------
(* Monotonicity of the overall rule                                        *)

(* The percentages and the days a reading is compared with.                *)
PercentageSet == {Rat(100 * u, 60) : u \in 0..MaxUsed}

LaterDaySet == {Rat(c, m) : <<c, m>> \in {dm \in (1..31) \X {28, 31} : dm[1] <= dm[2]}}

(* C28: for a fixed monthProgress a higher percentage never gets a lower   *)
(* severity, and for a fixed percentage a later day of the month (a higher *)
(* monthProgress) never gets a higher severity (Green < Yellow < Red).     *)
C28_Monotone ==
  Done("getOverallColor") =>
    /\ \A p \in PercentageSet :
         RLe(args.percentage, p) =>
           Severity(ret.value) <= Severity(getOverallColor(p, args.monthProgress))
    /\ \A mp \in LaterDaySet :
         RLe(args.monthProgress, mp) =>
           Severity(getOverallColor(args.percentage, mp)) <= Severity(ret.value)

(* Yellow on day 10 of 30: red at a higher usage, green on day 20.         *)
C28_Witness ==
  /\ Done("getOverallColor")
  /\ REq(args.monthProgress, Rat(1, 3))
  /\ ret.value = "yellow"
  /\ \E p \in PercentageSet :
       RLt(args.percentage, p) /\ getOverallColor(p, args.monthProgress) = "red"
  /\ getOverallColor(args.percentage, Rat(2, 3)) = "green"

----------------------------------------------------------------------------
(* Ends of the usage bar                                                   *)

FilledCells(bar) == Len(SelectSeq(bar, LAMBDA g : g = "FULL"))

BarCells(bar) == Len(SelectSeq(bar, LAMBDA g : g \in {"FULL", "EMPTY"}))

(* C29: a bar of drawBar (width >= 1, used >= 0, total >= 1) is completely *)
(* filled if and only if used >= total and has no filled cell if and only  *)
(* if used * width < total, so a usage below the limit never draws a full  *)
(* bar; the same holds of the large usage bar of renderDisplay.            *)
C29_BarEnds ==
  /\ Done("drawBar") =>
       /\ FilledCells(ret.value) = args.width <=> ~RLt(args.used, Rat(args.total, 1))
       /\ FilledCells(ret.value) = 0
            <=> RLt(RMulInt(args.used, args.width), Rat(args.total, 1))
       /\ RLt(args.used, Rat(args.total, 1)) => FilledCells(ret.value) < BarCells(ret.value)
  /\ Returned("renderDisplay") =>
       LET bar == splitLines(ret.value)[UsageBarLineNo]
           t == args.data.totalUsage
       IN  /\ FilledCells(bar) = BarCells(bar) <=> ~RLt(t, Rat(args.limit, 1))
           /\ FilledCells(bar) = 0
                <=> RLt(RMulInt(t, args.width - 14), Rat(args.limit, 1))

(* A usage of 5.5 out of 6: eight of nine cells, not a full bar.           *)
C29_Witness ==
  /\ Done("drawBar")
  /\ args.used = Rat(11, 2) /\ args.total = 6 /\ args.width = 9
  /\ FilledCells(ret.value) = 8
  /\ BarCells(ret.value) = 9

(* A usage of half a request out of 6 in three cells: nothing filled.      *)
C29_EmptyWitness ==
  /\ Done("drawBar")
  /\ args.used = Rat(1, 2) /\ args.total = 6 /\ args.width = 3
  /\ FilledCells(ret.value) = 0

----------------------------------------------------------------------------
(* Precedence of the outcomes of parseCliArgs                              *)

CliOutcomes == {"UnknownFlagError", "InvalidPlanError", "InvalidLimitError", "CliResult"}

(* C30 as stated: a parse failure wins over everything, then help, then    *)
(* version, then plan validation, then limit validation: help with version *)
(* returns help, an invalid plan with an invalid limit returns             *)
(* InvalidPlanError; one outcome is returned and nothing is raised. A plan *)
(* is invalid when it names none of the five plans, a limit when it is not *)
(* a positive integer.                                                     *)
C30_AsStated ==
  Done("parseCliArgs") =>
    LET parsed == parseArgs(args.argv)
        invalidPlan == parsed.plan.defined /\ ~NamesKnownPlan(parsed.plan.str)
        invalidLimit == parsed.limit.defined /\ ~IsPositiveInteger(parsed.limit.str)
    IN  /\ ret.kind = "return" /\ ret.value.tag \in CliOutcomes
        /\ parsed.error => ret.value.tag = "UnknownFlagError"
        /\ ~parsed.error /\ parsed.help =>
             ret.value.tag = "CliResult" /\ ret.value.action = "help"
        /\ ~parsed.error /\ ~parsed.help /\ parsed.version =>
             ret.value.tag = "CliResult" /\ ret.value.action = "version"
        /\ ~parsed.error /\ ~parsed.help /\ ~parsed.version /\ invalidPlan /\ invalidLimit =>
             ret.value.tag = "InvalidPlanError"

(* The order of the checks, each validation taken as the code makes it     *)
(* (PLANS[planKey] truthy; parseInt positive).                             *)
C30_OrderOfChecks ==
  Done("parseCliArgs") =>
    LET parsed == parseArgs(args.argv)
        planRejected ==
          parsed.plan.defined /\ ~Truthy(PLANS(toLowerCase(parsed.plan.str)))
        limitRejected ==
          parsed.limit.defined
            /\ (isNaN(parseInt(parsed.limit.str)) \/ parseInt(parsed.limit.str).num <= 0)
        early == parsed.error \/ parsed.help \/ parsed.version
    IN  /\ ret.kind = "return" /\ ret.value.tag \in CliOutcomes
        /\ parsed.error => ret.value.tag = "UnknownFlagError"
        /\ ~parsed.error /\ parsed.help =>
             ret.value.tag = "CliResult" /\ ret.value.action = "help"
        /\ ~parsed.error /\ ~parsed.help /\ parsed.version =>
             ret.value.tag = "CliResult" /\ ret.value.action = "version"
        /\ ~early /\ planRejected => ret.value.tag = "InvalidPlanError"
        /\ ~early /\ ~planRejected /\ limitRejected => ret.value.tag = "InvalidLimitError"
        /\ ~early /\ ~planRejected /\ ~limitRejected =>
             ret.value.tag = "CliResult" /\ ret.value.action = "run"

(* --plan constructor --limit=-10: the plan check lets the inherited name  *)
(* pass and the limit check answers.                                       *)
C30_InheritedPlanName ==
  /\ Returned("parseCliArgs")
  /\ UserArgs(args.argv) = <<FlagPlanLong, TxtConstructor,
                             <<"-", "-", "l", "i", "m", "i", "t", "=", "-", "1", "0">>>>
  /\ ret.value.tag = "InvalidLimitError"

(* --plan=bogus with --limit=-10: the plan error is the one returned.      *)
C30_PlanBeforeLimit ==
  /\ Returned("parseCliArgs")
  /\ UserArgs(args.argv) = <<<<"-", "-", "p", "l", "a", "n", "=", "b", "o", "g", "u", "s">>,
                             <<"-", "-", "l", "i", "m", "i", "t", "=", "-", "1", "0">>>>
  /\ ret.value.tag = "InvalidPlanError"

====
